---------------------------- MODULE Spec2Model ----------------------------
(***************************************************************************)
(* Model of AdvancedTimetableGenerator (src/timetable-generator.js).       *)
(*                                                                         *)
(* One generateTimetable call is a state machine: the two randomized       *)
(* construction loops take one step per sampling attempt, then break/lunch *)
(* injection and the optimizer run and the result is returned.  Strings    *)
(* the code compares or splits (times) are sequences of character codes;   *)
(* identifiers that are only compared for equality are TLA+ strings.       *)
(*                                                                         *)
(* The AuthManager (src/auth.js) is a second state machine on variables of *)
(* its own: its methods and the auth-state callback take one step per      *)
(* synchronous run between awaits.                                         *)
(***************************************************************************)
EXTENDS Integers, Sequences, FiniteSets, TLC

(***************************************************************************)
(* Bounds of the input catalogue.                                          *)
(***************************************************************************)
MaxCourses == 3
MaxRooms == 4
MaxSlots == 2
MaxConfigCourses == 2

(***************************************************************************)
(* JavaScript values.                                                      *)
(***************************************************************************)
Undefined == "undefined"

Null == "null"

Truthy(v) == v # Undefined /\ v # ""

\* Character codes (UTF-16 code units) of the characters of time strings.
Dash == 45
Colon == 58
Digit(d) == 48 + d

\* "h:mm" and "hh:mm" strings as code-unit sequences.
Clock(h, m) ==
  (IF h >= 10 THEN <<Digit(h \div 10)>> ELSE << >>)
    \o <<Digit(h % 10), Colon, Digit(m \div 10), Digit(m % 10)>>

\* `${a}-${b}`
FormatTime(a, b) == a \o <<Dash>> \o b

\* Index of the first occurrence of code c in s at or after position i, 0 if none.
RECURSIVE IndexFrom(_, _, _)
IndexFrom(s, c, i) ==
  IF i > Len(s) THEN 0
  ELSE IF s[i] = c THEN i
  ELSE IndexFrom(s, c, i + 1)

\* s.split(sep): the sequence of the segments of s between occurrences of sep.
RECURSIVE Split(_, _)
Split(s, sep) ==
  LET k == IndexFrom(s, sep, 1) IN
    IF k = 0 THEN <<s>>
    ELSE <<SubSeq(s, 1, k - 1)>> \o Split(SubSeq(s, k + 1, Len(s)), sep)

\* s.split(sep)[i] with i counted from 0; Undefined past the end.
SplitAt(s, sep, i) ==
  LET parts == Split(s, sep) IN
    IF i + 1 <= Len(parts) THEN parts[i + 1] ELSE Undefined

StartOf(time) == SplitAt(time, Dash, 0)
EndOf(time) == SplitAt(time, Dash, 1)

\* Relational comparison of two strings (<=, >=): by code units, a proper
\* prefix being smaller.
RECURSIVE CodeUnitLeq(_, _)
CodeUnitLeq(a, b) ==
  IF Len(a) = 0 THEN TRUE
  ELSE IF Len(b) = 0 THEN FALSE
  ELSE IF a[1] # b[1] THEN a[1] < b[1]
  ELSE CodeUnitLeq(Tail(a), Tail(b))

\* Collation weight of a character under String.prototype.localeCompare's
\* default (root) collation: punctuation sorts before digits.
CollationWeight(c) ==
  IF c = Dash THEN 0
  ELSE IF c = Colon THEN 1
  ELSE 2 + (c - 48)

\* a.localeCompare(b): -1, 0 or 1.
RECURSIVE LocaleCompare(_, _)
LocaleCompare(a, b) ==
  IF Len(a) = 0 /\ Len(b) = 0 THEN 0
  ELSE IF Len(a) = 0 THEN -1
  ELSE IF Len(b) = 0 THEN 1
  ELSE IF CollationWeight(a[1]) < CollationWeight(b[1]) THEN -1
  ELSE IF CollationWeight(a[1]) > CollationWeight(b[1]) THEN 1
  ELSE LocaleCompare(Tail(a), Tail(b))

IsDigits(s) == \A i \in 1..Len(s) : s[i] >= 48 /\ s[i] <= 57

\* Number(s) for a string of decimal digits (Number("") is 0).
RECURSIVE ToNumber(_)
ToNumber(s) ==
  IF Len(s) = 0 THEN 0
  ELSE 10 * ToNumber(SubSeq(s, 1, Len(s) - 1)) + (s[Len(s)] - 48)


(***************************************************************************)
(* The instance and its input.                                             *)
(***************************************************************************)
\* The constructor's this.constraints.
MAX_CLASSES_PER_DAY == 6
MAX_HOURS_PER_DAY == 8
LAB_DURATION == 2
MIN_BREAK_BETWEEN_CLASSES == 10
LUNCH_BREAK == 60
THEORY_DURATION == 1

DefaultConstraints ==
  [MAX_CLASSES_PER_DAY |-> MAX_CLASSES_PER_DAY,
   MAX_HOURS_PER_DAY |-> MAX_HOURS_PER_DAY,
   LAB_DURATION |-> LAB_DURATION,
   MIN_BREAK_BETWEEN_CLASSES |-> MIN_BREAK_BETWEEN_CLASSES,
   LUNCH_BREAK |-> LUNCH_BREAK,
   THEORY_DURATION |-> THEORY_DURATION]

\* { ...this.constraints, ...constraints }
MergeConstraints(defaults, overrides) ==
  [k \in DOMAIN defaults \cup DOMAIN overrides |->
     IF k \in DOMAIN overrides THEN overrides[k] ELSE defaults[k]]

\* The keys of the grid, in insertion order.
Days == <<"Monday", "Tuesday", "Wednesday", "Thursday", "Friday", "Saturday">>

DayNames == {Days[i] : i \in 1..Len(Days)}

\* The list getRandomDay draws from.
RandomDays == <<"Monday", "Tuesday", "Wednesday", "Thursday", "Friday">>

\* The list scheduleLabCourses draws from.
LabDays == <<"Monday", "Tuesday", "Wednesday", "Thursday", "Friday">>

Range(s) == {s[i] : i \in 1..Len(s)}

\* initializeTimetable()
InitializeTimetable == [d \in DayNames |-> << >>]

(***************************************************************************)
(* Catalogues the model draws its input from.  Courses are sequences over  *)
(* three course templates; rooms and timeslots are prefixes of two pools.   *)
(***************************************************************************)
CoursePool ==
  <<[code |-> "CS101", type |-> "theory", teacherId |-> "F1", expectedStudents |-> 50],
    [code |-> "CS102", type |-> "theory", teacherId |-> "F2", expectedStudents |-> 0],
    [code |-> "CS103", type |-> "lab", teacherId |-> "F2", expectedStudents |-> 50]>>

\* Template choices: the non-decreasing sequences of at most MaxCourses
\* positions of the pool (a template may be listed more than once).
CourseChoices ==
  {s \in UNION {[1..n -> 1..Len(CoursePool)] : n \in 0..MaxCourses} :
     \A i \in 1..Len(s) : \A j \in i..Len(s) : s[i] <= s[j]}

\* A course of the catalogue; id is its position in the course list and
\* stands for the identity of the object.
MakeCourses(choice) ==
  [i \in 1..Len(choice) |->
     [id |-> i,
      code |-> CoursePool[choice[i]].code,
      type |-> CoursePool[choice[i]].type,
      teacherId |-> CoursePool[choice[i]].teacherId,
      expectedStudents |-> CoursePool[choice[i]].expectedStudents]]

RoomPool ==
  <<[name |-> "R1", type |-> "classroom", capacity |-> 50],
    [name |-> "LabA", type |-> "lab", capacity |-> 30],
    [name |-> "R2", type |-> "classroom", capacity |-> 60],
    [name |-> "LabB", type |-> "lab", capacity |-> 60],
    [name |-> "Room 202", type |-> "classroom", capacity |-> 60]>>

\* The sample timeslots of database.js, a theory and the lab slot first.
SlotPool ==
  <<[start |-> Clock(8, 30), end |-> Clock(9, 30), type |-> "theory"],
    [start |-> Clock(2, 0), end |-> Clock(4, 0), type |-> "lab"],
    [start |-> Clock(9, 30), end |-> Clock(10, 30), type |-> "theory"],
    [start |-> Clock(11, 0), end |-> Clock(12, 0), type |-> "theory"],
    [start |-> Clock(1, 0), end |-> Clock(2, 0), type |-> "theory"],
    [start |-> Clock(10, 30), end |-> Clock(11, 0), type |-> "break"],
    [start |-> Clock(12, 0), end |-> Clock(1, 0), type |-> "lunch"]>>

FacultyPool == <<"F1", "F2">>

Min(a, b) == IF a <= b THEN a ELSE b

Prefixes(pool, max) == {SubSeq(pool, 1, n) : n \in 0..Min(max, Len(pool))}

\* Caller overrides of the constraints: none, or a ceiling of one class a day.
ConstraintChoices == {<< >>, [MAX_CLASSES_PER_DAY |-> 1]}

(***************************************************************************)
(* State of the running generateTimetable call and of the instance.        *)
(***************************************************************************)
VARIABLES
  sectionData,   \* the catalogue: courses, faculties, rooms, timeslots
  constraints,   \* the caller's overrides
  timetable,     \* the grid under construction: day -> sequence of entries
  pc,            \* "theory", "lab", "breaks", "optimize", "done", "raised"
  ci,            \* position of the current course in the loop's course list
  attempts,      \* attempts of the current course
  warned,        \* ids of the courses console.warn reported
  returned,      \* << >> until the call returns, then <<the returned object>>
  instanceConstraints,  \* this.constraints of the shared instance
  suspended,     \* the frames of the calls waiting at an await: << >> or <<frame>>
  currentUser,   \* AuthManager: this.currentUser
  localStorage,  \* the page's localStorage: key -> value, Null when absent
  firebaseAuth,  \* the Firebase auth object and the listener calls it owes
  authCalls      \* AuthManager: the calls and callbacks waiting at an await

\* The state of the timetable generator and the state of the AuthManager
\* (src/auth.js) with its collaborators.
generatorVars ==
  <<sectionData, constraints, timetable, pc, ci, attempts, warned, returned,
    instanceConstraints, suspended>>

authVars == <<currentUser, localStorage, firebaseAuth, authCalls>>

vars == <<sectionData, constraints, timetable, pc, ci, attempts, warned, returned,
          instanceConstraints, suspended, currentUser, localStorage, firebaseAuth,
          authCalls>>

(***************************************************************************)
(* Values of the AuthManager (src/auth.js).  A user record is what          *)
(* saveSession is handed: a document of the users collection with its id,   *)
(* or the record handleDemoLogin builds.                                    *)
(***************************************************************************)
\* The keys clearSession removes.
StorageKeys == {"userData", "userRole", "userEmail", "isDemoUser", "rememberMe", "lastLogin"}

EmptyStorage == [k \in StorageKeys |-> Null]

\* localStorage.getItem(key): the stored string, or null.
getItem(key) == localStorage[key]

\* The truth value JavaScript gives a string or null.
TruthyString(v) == v # Null /\ v # ""

\* this.demoUsers of the constructor.
demoUsers ==
  [e \in {"student@demo.com", "faculty@demo.com", "admin@demo.com"} |->
     CASE e = "student@demo.com" -> [password |-> "student123", role |-> "student"]
       [] e = "faculty@demo.com" -> [password |-> "faculty123", role |-> "faculty"]
       [] OTHER -> [password |-> "admin123", role |-> "admin"]]

\* The accounts of the Firebase project with their passwords, and the
\* documents of the users collection by email (nodoc@college.edu has an
\* account and no document).
firebaseAccounts ==
  [e \in {"active@college.edu", "inactive@college.edu", "nodoc@college.edu"} |->
     "secret-" \o e]

userDocuments ==
  [e \in {"active@college.edu", "inactive@college.edu"} |->
     [id |-> "doc-" \o e, email |-> e,
      role |-> IF e = "active@college.edu" THEN "faculty" ELSE "student",
      isActive |-> e = "active@college.edu", isDemo |-> FALSE]]

\* dbManager.getUserByEmail(email) when the query succeeds: << >> for null,
\* or the first document with that email together with its id.
getUserByEmail(email) ==
  IF email \in DOMAIN userDocuments THEN <<userDocuments[email]>> ELSE << >>

\* The record handleDemoLogin builds for a demo user.
demoUserData(email) ==
  [id |-> "demo-now", email |-> email, role |-> demoUsers[email].role,
   isActive |-> TRUE, isDemo |-> TRUE]

\* The user records of the model, and JSON.stringify / JSON.parse on them.
UserRecords ==
  {userDocuments[e] : e \in DOMAIN userDocuments} \cup
  {demoUserData(e) : e \in DOMAIN demoUsers}

JSONstringify(userData) ==
  "{id:" \o userData.id \o ",email:" \o userData.email \o ",role:" \o userData.role \o
  ",isActive:" \o (IF userData.isActive THEN "true" ELSE "false") \o
  (IF userData.isDemo THEN ",isDemo:true}" ELSE "}")

JSONparse(text) == CHOOSE userData \in UserRecords : JSONstringify(userData) = text

\* An object reference that may be null is a sequence: << >> for null,
\* <<object>> otherwise.
NoUser == << >>

\* No call of the AuthManager is in flight.
NoAuthCalls ==
  [login |-> [at |-> "idle", email |-> Null, password |-> Null], logout |-> "idle",
   lookups |-> << >>, logins |-> 0, logouts |-> 0,
   loginLog |-> {}, sinceLogout |-> "never"]

\* The AuthManager is not used by the calls of the timetable generator.
AuthManagerUnused ==
  /\ currentUser = NoUser
  /\ localStorage = EmptyStorage
  /\ firebaseAuth = [currentUser |-> Null, listenerCalls |-> << >>, signOutCalls |-> 0]
  /\ authCalls = NoAuthCalls

finalConstraints == MergeConstraints(instanceConstraints, constraints)

\* The instance after its constructor, with no other call in flight.
SingleCall ==
  /\ instanceConstraints = DefaultConstraints
  /\ suspended = << >>

theoryCourses == SelectSeq(sectionData.courses, LAMBDA c : c.type = "theory")
labCourses == SelectSeq(sectionData.courses, LAMBDA c : c.type = "lab")
theorySlots == SelectSeq(sectionData.timeslots, LAMBDA s : s.type = "theory")
labSlots == SelectSeq(sectionData.timeslots, LAMBDA s : s.type = "lab")

\* The start of a call on a catalogue of at most maxCourses courses whose
\* faculty list is one of the given prefixes of the pool.
InitCall(maxCourses, facultyCounts) ==
  /\ \E choice \in {c \in CourseChoices : Len(c) <= maxCourses} :
     \E nf \in facultyCounts :
     \E rooms \in Prefixes(RoomPool, MaxRooms) :
     \E slots \in Prefixes(SlotPool, MaxSlots) :
       sectionData = [courses |-> MakeCourses(choice),
                      faculties |-> SubSeq(FacultyPool, 1, nf),
                      rooms |-> rooms,
                      timeslots |-> slots]
  /\ constraints \in ConstraintChoices
  /\ timetable = InitializeTimetable
  /\ pc = "theory"
  /\ ci = 1
  /\ attempts = 0
  /\ warned = {}
  /\ returned = << >>
  /\ SingleCall
  /\ AuthManagerUnused

\* Catalogues whose courses all name a teacher of the faculty list.
Init == InitCall(MaxCourses, {Len(FacultyPool)})

\* Catalogues of at most MaxConfigCourses courses with any prefix of the
\* faculty pool as the faculty list, so that a course may name a teacher
\* that is not in it.
InitConfig == InitCall(MaxConfigCourses, 0..Len(FacultyPool))

(***************************************************************************)
(* Entries of the grid.  A field an entry does not have is Undefined (0    *)
(* for duration).  The display name and the credits are never read by the  *)
(* generator and are left out.                                             *)
(***************************************************************************)
TheorySession(course, slot, room) ==
  [id |-> course.id,
   time |-> FormatTime(slot.start, slot.end),
   code |-> course.code,
   teacher |-> course.teacherId,
   room |-> room,
   type |-> "theory",
   duration |-> 0]

LabSession(course, slot, room) ==
  [id |-> course.id,
   time |-> FormatTime(slot.start, slot.end),
   code |-> course.code \o "L",
   teacher |-> course.teacherId,
   room |-> room,
   type |-> "lab",
   duration |-> 2]

Marker(time, type) ==
  [id |-> 0, time |-> time, code |-> Undefined, teacher |-> Undefined,
   room |-> Undefined, type |-> type, duration |-> 0]

IsSession(e) == e.type = "theory" \/ e.type = "lab"

(***************************************************************************)
(* Room selection.  The random pick is a choice among the returned names.  *)
(***************************************************************************)
\* The first of the positions hits of a sequence (find, findIndex); 0 if none.
FirstOf(hits) ==
  IF hits = {} THEN 0 ELSE CHOOSE i \in hits : \A j \in hits : i <= j

\* findSuitableRoom(rooms, course): the names it can return.
findSuitableRoom(rooms, course) ==
  LET wanted == IF course.expectedStudents # 0 THEN course.expectedStudents ELSE 60
      suitableRooms ==
        SelectSeq(rooms, LAMBDA r : r.type = "classroom" /\ r.capacity >= wanted)
      first == FirstOf({i \in 1..Len(rooms) : rooms[i].type = "classroom"})
  IN IF Len(suitableRooms) = 0
     THEN {IF first # 0 /\ Truthy(rooms[first].name)
           THEN rooms[first].name ELSE "Room 201"}
     ELSE {suitableRooms[i].name : i \in 1..Len(suitableRooms)}

\* findLabRoom without its filter on the room type.
findLabRoom_AnyType(rooms, course) ==
  IF Len(rooms) = 0
  THEN {"Lab 101"}
  ELSE {rooms[i].name : i \in 1..Len(rooms)}

\* findLabRoom(rooms, course): the names it can return.
findLabRoom(rooms, course) ==
  LET labRooms == SelectSeq(rooms, LAMBDA r : r.type = "lab")
  IN IF Len(labRooms) = 0
     THEN {"Lab 101"}
     ELSE {labRooms[i].name : i \in 1..Len(labRooms)}

(***************************************************************************)
(* Placement checks.  slots[si] is the sampled slot; si = 0 stands for the *)
(* undefined element sampled from an empty slot list, and reading its      *)
(* start throws.  The result is "true", "false" or "throw".                *)
(***************************************************************************)
SlotDraws(slots) == IF Len(slots) = 0 THEN {0} ELSE 1..Len(slots)

\* daySchedule.some(c => left(c) && c.time === `${slot.start}-${slot.end}`),
\* where matches are the positions of the entries for which left holds: the
\* time is read, and the undefined slot throws, only behind a true left.
SomeAtSlot(daySchedule, matches, slots, si) ==
  IF matches = {} THEN "false"
  ELSE IF si = 0 THEN "throw"
  ELSE IF \E i \in matches :
            daySchedule[i].time = FormatTime(slots[si].start, slots[si].end)
       THEN "true"
       ELSE "false"

\* canScheduleCourse without its teacher check.
canScheduleCourse_NoTeacherCheck(tt, day, slots, si, course, room, cons) ==
  LET daySchedule == tt[day]
      roomConflict ==
        SomeAtSlot(daySchedule,
                   {i \in 1..Len(daySchedule) : daySchedule[i].room = room},
                   slots, si)
  IN IF roomConflict # "false"
     THEN (IF roomConflict = "throw" THEN "throw" ELSE "false")
     ELSE IF Len(daySchedule) >= cons.MAX_CLASSES_PER_DAY THEN "false"
     ELSE "true"

\* canScheduleCourse; room is the name its findSuitableRoom call returned.
canScheduleCourse(tt, day, slots, si, course, room, cons) ==
  LET daySchedule == tt[day]
      teacherConflict ==
        SomeAtSlot(daySchedule,
                   {i \in 1..Len(daySchedule) :
                      daySchedule[i].teacher = course.teacherId},
                   slots, si)
      roomConflict ==
        SomeAtSlot(daySchedule,
                   {i \in 1..Len(daySchedule) : daySchedule[i].room = room},
                   slots, si)
  IN IF teacherConflict # "false"
     THEN (IF teacherConflict = "throw" THEN "throw" ELSE "false")
     ELSE IF roomConflict # "false"
     THEN (IF roomConflict = "throw" THEN "throw" ELSE "false")
     ELSE IF Len(daySchedule) >= cons.MAX_CLASSES_PER_DAY THEN "false"
     ELSE "true"

\* canScheduleLab without its check of the teacher's day.
canScheduleLab_NoTeacherCheck(tt, day, course, labRoom) ==
  LET daySchedule == tt[day]
      roomConflict ==
        \E i \in 1..Len(daySchedule) : daySchedule[i].room = labRoom
      labScheduledThisWeek ==
        \E d \in DayNames : \E i \in 1..Len(tt[d]) :
          tt[d][i].code = course.code \o "L"
  IN IF roomConflict THEN "false"
     ELSE IF labScheduledThisWeek THEN "false"
     ELSE "true"

\* canScheduleLab without its check for a lab already scheduled this week.
canScheduleLab_NoWeekCheck(tt, day, course, labRoom) ==
  LET daySchedule == tt[day]
      teacherConflict ==
        \E i \in 1..Len(daySchedule) : daySchedule[i].teacher = course.teacherId
      roomConflict ==
        \E i \in 1..Len(daySchedule) : daySchedule[i].room = labRoom
  IN IF teacherConflict THEN "false"
     ELSE IF roomConflict THEN "false"
     ELSE "true"

\* canScheduleLab; labRoom is the name its findLabRoom call returned.
canScheduleLab(tt, day, course, labRoom) ==
  LET daySchedule == tt[day]
      teacherConflict ==
        \E i \in 1..Len(daySchedule) : daySchedule[i].teacher = course.teacherId
      roomConflict ==
        \E i \in 1..Len(daySchedule) : daySchedule[i].room = labRoom
      labScheduledThisWeek ==
        \E d \in DayNames : \E i \in 1..Len(tt[d]) :
          tt[d][i].code = course.code \o "L"
  IN IF teacherConflict THEN "false"
     ELSE IF roomConflict THEN "false"
     ELSE IF labScheduledThisWeek THEN "false"
     ELSE "true"

(***************************************************************************)
(* scheduleTheoryCourses.  TheoryAttempt is one iteration of the while     *)
(* loop; an accepted placement ends the loop and moves on to the next      *)
(* course.  TheoryUnscheduled is the loop's exit on an exhausted budget    *)
(* (the console.warn), TheoryDone the return to generateTimetable.         *)
(***************************************************************************)
TheoryMaxAttempts == 100
LabMaxAttempts == 50

Raise ==
  /\ pc' = "raised"
  /\ UNCHANGED <<instanceConstraints, suspended>>
  /\ UNCHANGED authVars
  /\ UNCHANGED <<sectionData, constraints, timetable, ci, attempts, warned,
                 returned>>

\* The while body of scheduleTheoryCourses without scheduled = true: an
\* accepted placement does not end the sampling of the course.
TheoryAttempt_NoStop ==
  /\ pc = "theory"
  /\ ci <= Len(theoryCourses)
  /\ attempts < TheoryMaxAttempts
  /\ \E randomDay \in Range(RandomDays) :
     \E si \in SlotDraws(theorySlots) :
     \E checked \in findSuitableRoom(sectionData.rooms, theoryCourses[ci]) :
     \E room \in findSuitableRoom(sectionData.rooms, theoryCourses[ci]) :
       LET course == theoryCourses[ci]
           can == canScheduleCourse(timetable, randomDay, theorySlots, si, course,
                                    checked, finalConstraints)
       IN IF can = "throw" \/ (can = "true" /\ si = 0)
          THEN Raise
          ELSE /\ IF can = "true"
                  THEN /\ timetable' =
                            [timetable EXCEPT ![randomDay] =
                               Append(@, TheorySession(course, theorySlots[si], room))]
                       /\ UNCHANGED <<ci, attempts>>
                  ELSE /\ attempts' = attempts + 1
                       /\ UNCHANGED <<timetable, ci>>
               /\ UNCHANGED <<instanceConstraints, suspended>>
               /\ UNCHANGED authVars
               /\ UNCHANGED <<sectionData, constraints, pc, warned, returned>>

TheoryAttempt ==
  /\ pc = "theory"
  /\ ci <= Len(theoryCourses)
  /\ attempts < TheoryMaxAttempts
  /\ \E randomDay \in Range(RandomDays) :
     \E si \in SlotDraws(theorySlots) :
     \E checked \in findSuitableRoom(sectionData.rooms, theoryCourses[ci]) :
     \E room \in findSuitableRoom(sectionData.rooms, theoryCourses[ci]) :
       LET course == theoryCourses[ci]
           can == canScheduleCourse(timetable, randomDay, theorySlots, si, course,
                                    checked, finalConstraints)
       IN IF can = "throw" \/ (can = "true" /\ si = 0)
          THEN Raise
          ELSE /\ IF can = "true"
                  THEN /\ timetable' =
                            [timetable EXCEPT ![randomDay] =
                               Append(@, TheorySession(course, theorySlots[si], room))]
                       /\ ci' = ci + 1
                       /\ attempts' = 0
                  ELSE /\ attempts' = attempts + 1
                       /\ UNCHANGED <<timetable, ci>>
               /\ UNCHANGED <<instanceConstraints, suspended>>
               /\ UNCHANGED authVars
               /\ UNCHANGED <<sectionData, constraints, pc, warned, returned>>

TheoryUnscheduled ==
  /\ pc = "theory"
  /\ ci <= Len(theoryCourses)
  /\ attempts >= TheoryMaxAttempts
  /\ warned' = warned \cup {theoryCourses[ci].id}
  /\ ci' = ci + 1
  /\ attempts' = 0
  /\ UNCHANGED <<instanceConstraints, suspended>>
  /\ UNCHANGED authVars
  /\ UNCHANGED <<sectionData, constraints, timetable, pc, returned>>

TheoryDone ==
  /\ pc = "theory"
  /\ ci > Len(theoryCourses)
  /\ pc' = "lab"
  /\ ci' = 1
  /\ UNCHANGED <<instanceConstraints, suspended>>
  /\ UNCHANGED authVars
  /\ UNCHANGED <<sectionData, constraints, timetable, attempts, warned, returned>>

(***************************************************************************)
(* scheduleLabCourses, likewise.                                           *)
(***************************************************************************)
LabAttempt ==
  /\ pc = "lab"
  /\ ci <= Len(labCourses)
  /\ attempts < LabMaxAttempts
  /\ \E randomDay \in Range(LabDays) :
     \E si \in SlotDraws(labSlots) :
     \E checked \in findLabRoom(sectionData.rooms, labCourses[ci]) :
     \E room \in findLabRoom(sectionData.rooms, labCourses[ci]) :
       LET course == labCourses[ci]
           can == canScheduleLab(timetable, randomDay, course, checked)
       IN IF can = "true" /\ si = 0
          THEN Raise
          ELSE /\ IF can = "true"
                  THEN /\ timetable' =
                            [timetable EXCEPT ![randomDay] =
                               Append(@, LabSession(course, labSlots[si], room))]
                       /\ ci' = ci + 1
                       /\ attempts' = 0
                  ELSE /\ attempts' = attempts + 1
                       /\ UNCHANGED <<timetable, ci>>
               /\ UNCHANGED <<instanceConstraints, suspended>>
               /\ UNCHANGED authVars
               /\ UNCHANGED <<sectionData, constraints, pc, warned, returned>>

LabUnscheduled ==
  /\ pc = "lab"
  /\ ci <= Len(labCourses)
  /\ attempts >= LabMaxAttempts
  /\ warned' = warned \cup {labCourses[ci].id}
  /\ ci' = ci + 1
  /\ attempts' = 0
  /\ UNCHANGED <<instanceConstraints, suspended>>
  /\ UNCHANGED authVars
  /\ UNCHANGED <<sectionData, constraints, timetable, pc, returned>>

LabDone ==
  /\ pc = "lab"
  /\ ci > Len(labCourses)
  /\ pc' = "breaks"
  /\ UNCHANGED <<instanceConstraints, suspended>>
  /\ UNCHANGED authVars
  /\ UNCHANGED <<sectionData, constraints, timetable, ci, attempts, warned, returned>>

(***************************************************************************)
(* addBreaksAndLunch.                                                      *)
(***************************************************************************)
\* Position of e in a sequence sorted by start, behind the entries that
\* do not compare greater (Array.prototype.sort is stable).
InsertByStart(sorted, e) ==
  LET k == FirstOf({i \in 1..Len(sorted) :
                      LocaleCompare(StartOf(sorted[i].time), StartOf(e.time)) > 0})
  IN IF k = 0 THEN Append(sorted, e)
     ELSE SubSeq(sorted, 1, k - 1) \o <<e>> \o SubSeq(sorted, k, Len(sorted))

\* daySchedule.sort((a, b) => aStart.localeCompare(bStart))
RECURSIVE SortByStart(_)
SortByStart(daySchedule) ==
  IF Len(daySchedule) = 0 THEN << >>
  ELSE InsertByStart(SortByStart(SubSeq(daySchedule, 1, Len(daySchedule) - 1)),
                     daySchedule[Len(daySchedule)])

\* time.split(':').map(Number) gives a NaN for a missing or non-numeric part.
ClockIsNumeric(t) ==
  LET parts == Split(t, Colon) IN
    Len(parts) >= 2 /\ IsDigits(parts[1]) /\ IsDigits(parts[2])

ClockMinutes(t) ==
  LET parts == Split(t, Colon) IN ToNumber(parts[1]) * 60 + ToNumber(parts[2])

TimeDifferenceIsNaN(time1, time2) == ~ClockIsNumeric(time1) \/ ~ClockIsNumeric(time2)

\* getTimeDifference(time1, time2), when it is a number.
getTimeDifference(time1, time2) == ClockMinutes(time2) - ClockMinutes(time1)

\* The loop that copies a sorted day and adds the break markers.
RECURSIVE WithBreaks(_, _, _)
WithBreaks(daySchedule, i, minBreak) ==
  IF i > Len(daySchedule) THEN << >>
  ELSE LET currentEnd == EndOf(daySchedule[i].time)
           nextStart == StartOf(daySchedule[i + 1].time)
           gap == /\ i < Len(daySchedule)
                  /\ ~TimeDifferenceIsNaN(currentEnd, nextStart)
                  /\ getTimeDifference(currentEnd, nextStart) > minBreak
       IN <<daySchedule[i]>>
            \o (IF gap THEN <<Marker(FormatTime(currentEnd, nextStart), "break")>>
                ELSE << >>)
            \o WithBreaks(daySchedule, i + 1, minBreak)

lunchTime == FormatTime(Clock(12, 0), Clock(1, 0))

WithLunch(updatedSchedule) ==
  LET hasClassDuringLunch ==
        \E i \in 1..Len(updatedSchedule) :
          \/ updatedSchedule[i].time = lunchTime
          \/ /\ CodeUnitLeq(StartOf(updatedSchedule[i].time), Clock(12, 0))
             /\ CodeUnitLeq(Clock(1, 0), EndOf(updatedSchedule[i].time))
      lunchIndex ==
        FirstOf({i \in 1..Len(updatedSchedule) :
                   CodeUnitLeq(Clock(12, 0), EndOf(updatedSchedule[i].time))})
  IN IF ~hasClassDuringLunch /\ lunchIndex # 0
     THEN SubSeq(updatedSchedule, 1, lunchIndex)
            \o <<Marker(lunchTime, "lunch")>>
            \o SubSeq(updatedSchedule, lunchIndex + 1, Len(updatedSchedule))
     ELSE updatedSchedule

\* addBreaksAndLunch whose copying loop stops before the last class of a day.
addBreaksAndLunch_SkipsLast(tt) ==
  [d \in DayNames |->
     LET daySchedule == SortByStart(tt[d])
     IN WithLunch(WithBreaks(SubSeq(daySchedule, 1, Len(daySchedule) - 1), 1,
                             instanceConstraints.MIN_BREAK_BETWEEN_CLASSES))]

\* addBreaksAndLunch reads the gap from this.constraints, the defaults.
addBreaksAndLunch(tt) ==
  [d \in DayNames |->
     WithLunch(WithBreaks(SortByStart(tt[d]), 1,
                          instanceConstraints.MIN_BREAK_BETWEEN_CLASSES))]

AddBreaksAndLunch ==
  /\ pc = "breaks"
  /\ timetable' = addBreaksAndLunch(timetable)
  /\ pc' = "optimize"
  /\ UNCHANGED <<instanceConstraints, suspended>>
  /\ UNCHANGED authVars
  /\ UNCHANGED <<sectionData, constraints, ci, attempts, warned, returned>>

(***************************************************************************)
(* optimizeTimetable: the three passes, on a deep copy of the grid.  A     *)
(* pass walks Object.entries(timetable): the days in key order, each day's *)
(* array as it is when the walk reaches it.  Object identity of an entry   *)
(* is its id (markers are never compared by identity).                     *)
(***************************************************************************)
OtherDays(day) == SelectSeq(Days, LAMBDA d : d # day)

WithoutEntry(classes, cls) == SelectSeq(classes, LAMBDA c : c.id # cls.id)

\* moveClassToResolveConflict that takes the first other day, whatever it holds.
moveClassToResolveConflict_AnyDay(tt, day, classToMove) ==
  LET otherDays == OtherDays(day)
  IN [tt EXCEPT ![otherDays[1]] = Append(@, classToMove),
                ![day] = WithoutEntry(@, classToMove)]

moveClassToResolveConflict(tt, day, classToMove) ==
  LET otherDays == OtherDays(day)
      hasConflict(otherDay) ==
        \E i \in 1..Len(tt[otherDay]) :
          /\ tt[otherDay][i].time = classToMove.time
          /\ tt[otherDay][i].teacher = classToMove.teacher
      k == FirstOf({j \in 1..Len(otherDays) : ~hasConflict(otherDays[j])})
  IN IF k = 0 THEN tt
     ELSE [tt EXCEPT ![otherDays[k]] = Append(@, classToMove),
                     ![day] = WithoutEntry(@, classToMove)]

\* The walk of one day's array from position i; st is [tt, seen].
RECURSIVE TeacherWalk(_, _, _, _)
TeacherWalk(st, day, classes, i) ==
  IF i > Len(classes) THEN st
  ELSE LET cls == classes[i]
           key == <<day, cls.time, cls.teacher>>
       IN IF Truthy(cls.teacher) /\ cls.type # "break" /\ cls.type # "lunch"
          THEN IF key \in st.seen
               THEN TeacherWalk([st EXCEPT !.tt =
                                   moveClassToResolveConflict(st.tt, day, cls)],
                                day, classes, i + 1)
               ELSE TeacherWalk([st EXCEPT !.seen = @ \cup {key}],
                                day, classes, i + 1)
          ELSE TeacherWalk(st, day, classes, i + 1)

RECURSIVE TeacherDays(_, _)
TeacherDays(st, di) ==
  IF di > Len(Days) THEN st
  ELSE TeacherDays(TeacherWalk(st, Days[di], st.tt[Days[di]], 1), di + 1)

resolveTeacherConflicts(tt) == TeacherDays([tt |-> tt, seen |-> {}], 1).tt

AlternativeRooms == <<"Room 202", "Room 203", "Room 204", "Room 205">>

findAlternativeRoom(currentRoom) ==
  LET k == FirstOf({i \in 1..Len(AlternativeRooms) :
                      AlternativeRooms[i] # currentRoom})
  IN IF k # 0 THEN AlternativeRooms[k] ELSE "Room 201"

RECURSIVE RoomWalk(_, _, _)
RoomWalk(st, day, i) ==
  IF i > Len(st.tt[day]) THEN st
  ELSE LET cls == st.tt[day][i]
           key == <<day, cls.time, cls.room>>
       IN IF Truthy(cls.room) /\ cls.type # "break" /\ cls.type # "lunch"
          THEN IF key \in st.seen
               THEN RoomWalk([st EXCEPT !.tt[day][i].room =
                                findAlternativeRoom(cls.room)], day, i + 1)
               ELSE RoomWalk([st EXCEPT !.seen = @ \cup {key}], day, i + 1)
          ELSE RoomWalk(st, day, i + 1)

RECURSIVE RoomDays(_, _)
RoomDays(st, di) ==
  IF di > Len(Days) THEN st
  ELSE RoomDays(RoomWalk(st, Days[di], 1), di + 1)

resolveRoomConflicts(tt) == RoomDays([tt |-> tt, seen |-> {}], 1).tt

\* The forEach of redistributeClasses without the filter that takes the
\* class from its day.
RECURSIVE MoveClasses_KeepsSource(_, _, _, _)
MoveClasses_KeepsSource(tt, fromDay, classesToMove, i) ==
  IF i > Len(classesToMove) THEN tt
  ELSE LET otherDays == OtherDays(fromDay)
           k == FirstOf({j \in 1..Len(otherDays) :
                           Len(tt[otherDays[j]]) < Len(tt[fromDay])})
           targetDay == IF k # 0 THEN otherDays[k] ELSE otherDays[1]
       IN MoveClasses_KeepsSource(
            [tt EXCEPT ![targetDay] = Append(@, classesToMove[i])],
            fromDay, classesToMove, i + 1)

\* The forEach of redistributeClasses from position i of classesToMove.
RECURSIVE MoveClasses(_, _, _, _)
MoveClasses(tt, fromDay, classesToMove, i) ==
  IF i > Len(classesToMove) THEN tt
  ELSE LET otherDays == OtherDays(fromDay)
           k == FirstOf({j \in 1..Len(otherDays) :
                           Len(tt[otherDays[j]]) < Len(tt[fromDay])})
           targetDay == IF k # 0 THEN otherDays[k] ELSE otherDays[1]
           cls == classesToMove[i]
       IN MoveClasses([tt EXCEPT ![targetDay] = Append(@, cls),
                                 ![fromDay] = WithoutEntry(@, cls)],
                      fromDay, classesToMove, i + 1)

redistributeClasses(tt, fromDay, numClassesToMove) ==
  LET theory == SelectSeq(tt[fromDay], LAMBDA c : c.type = "theory")
      classesToMove == SubSeq(theory, 1, Min(numClassesToMove, Len(theory)))
  IN MoveClasses(tt, fromDay, classesToMove, 1)

RECURSIVE SumSeq(_)
SumSeq(s) == IF Len(s) = 0 THEN 0 ELSE s[1] + SumSeq(Tail(s))

\* Number of theory and lab entries of a day.
ClassCount(classes) == Len(SelectSeq(classes, IsSession))

\* The forEach over dayWorkload from day di.  With avgClasses = total / n,
\* count > avgClasses + 1 is n * count > total + n, and
\* Math.floor(count - avgClasses) is (n * count - total) \div n.
RECURSIVE BalanceDays(_, _, _, _)
BalanceDays(tt, dayWorkload, total, di) ==
  IF di > Len(Days) THEN tt
  ELSE LET count == dayWorkload[di]
           n == Len(Days)
       IN IF n * count > total + n
          THEN BalanceDays(
                 redistributeClasses(tt, Days[di], (n * count - total) \div n),
                 dayWorkload, total, di + 1)
          ELSE BalanceDays(tt, dayWorkload, total, di + 1)

\* balanceDailyWorkload that moves nothing.
balanceDailyWorkload_MovesNothing(tt) == tt

balanceDailyWorkload(tt) ==
  LET dayWorkload == [di \in 1..Len(Days) |-> ClassCount(tt[Days[di]])]
  IN BalanceDays(tt, dayWorkload, SumSeq(dayWorkload), 1)

optimizeTimetable(tt) ==
  balanceDailyWorkload(resolveRoomConflicts(resolveTeacherConflicts(tt)))

\* OptimizeAndReturn with the passes run on the grid itself instead of on
\* JSON.parse(JSON.stringify(timetable)).
OptimizeAndReturn_InPlace ==
  /\ pc = "optimize"
  /\ timetable' = optimizeTimetable(timetable)
  /\ returned' = <<[grid |-> timetable', constraints |-> finalConstraints]>>
  /\ pc' = "done"
  /\ UNCHANGED <<instanceConstraints, suspended>>
  /\ UNCHANGED authVars
  /\ UNCHANGED <<sectionData, constraints, ci, attempts, warned>>

\* The last statements of generateTimetable: optimize and return.  The
\* returned object spreads the optimized grid (grid) beside the constraints;
\* sectionId and generatedAt are labels.
OptimizeAndReturn ==
  /\ pc = "optimize"
  /\ returned' = <<[grid |-> optimizeTimetable(timetable),
                    constraints |-> finalConstraints]>>
  /\ pc' = "done"
  /\ UNCHANGED <<instanceConstraints, suspended>>
  /\ UNCHANGED authVars
  /\ UNCHANGED <<sectionData, constraints, timetable, ci, attempts, warned>>

Next ==
  \/ TheoryAttempt
  \/ TheoryUnscheduled
  \/ TheoryDone
  \/ LabAttempt
  \/ LabUnscheduled
  \/ LabDone
  \/ AddBreaksAndLunch
  \/ OptimizeAndReturn

Spec == Init /\ [][Next]_vars

SpecConfig == InitConfig /\ [][Next]_vars

(***************************************************************************)
(* Calls on four whole catalogues: the two-course scenario (one faculty,   *)
(* one classroom, five theory timeslots), the same with a second teacher   *)
(* and a second classroom, a section on the sample timeslots of            *)
(* database.js with a lab course, and a section with two lab courses; each *)
(* with and without a caller override of the minimum gap between classes.  *)
(***************************************************************************)
ScenarioCourse(id, code, type, teacherId) ==
  [id |-> id, code |-> code, type |-> type, teacherId |-> teacherId,
   expectedStudents |-> 50]

Classroom(name) == [name |-> name, type |-> "classroom", capacity |-> 60]

FiveTheorySlots ==
  <<[start |-> Clock(8, 30), end |-> Clock(9, 30), type |-> "theory"],
    [start |-> Clock(9, 45), end |-> Clock(10, 45), type |-> "theory"],
    [start |-> Clock(11, 0), end |-> Clock(12, 0), type |-> "theory"],
    [start |-> Clock(1, 0), end |-> Clock(2, 0), type |-> "theory"],
    [start |-> Clock(2, 15), end |-> Clock(3, 15), type |-> "theory"]>>

\* The sample timeslots of database.js in the order of their order field.
SampleTimeslots ==
  <<[start |-> Clock(8, 30), end |-> Clock(9, 30), type |-> "theory"],
    [start |-> Clock(9, 30), end |-> Clock(10, 30), type |-> "theory"],
    [start |-> Clock(10, 30), end |-> Clock(11, 0), type |-> "break"],
    [start |-> Clock(11, 0), end |-> Clock(12, 0), type |-> "theory"],
    [start |-> Clock(12, 0), end |-> Clock(1, 0), type |-> "lunch"],
    [start |-> Clock(1, 0), end |-> Clock(2, 0), type |-> "theory"],
    [start |-> Clock(2, 0), end |-> Clock(4, 0), type |-> "lab"]>>

ScenarioCatalogue ==
  [courses |-> <<ScenarioCourse(1, "C1", "theory", "F1"),
                 ScenarioCourse(2, "C2", "theory", "F1")>>,
   faculties |-> <<"F1">>,
   rooms |-> <<Classroom("R1")>>,
   timeslots |-> FiveTheorySlots]

TwoTeacherCatalogue ==
  [courses |-> <<ScenarioCourse(1, "C1", "theory", "F1"),
                 ScenarioCourse(2, "C2", "theory", "F2")>>,
   faculties |-> <<"F1", "F2">>,
   rooms |-> <<Classroom("R1"), Classroom("R2")>>,
   timeslots |-> FiveTheorySlots]

SampleCatalogue ==
  [courses |-> <<ScenarioCourse(1, "C1", "theory", "F1"),
                 ScenarioCourse(2, "C2", "theory", "F1"),
                 ScenarioCourse(3, "C3", "lab", "F1")>>,
   faculties |-> <<"F1">>,
   rooms |-> <<Classroom("R1"), [name |-> "LabA", type |-> "lab", capacity |-> 30]>>,
   timeslots |-> SampleTimeslots]

\* A section with two theory courses of one teacher and two lab courses of
\* two teachers, two lab rooms, and three of the sample timeslots: theory
\* at 8:30 and at 1:00, the lab slot at 2:00.
LabPairCatalogue ==
  [courses |-> <<ScenarioCourse(1, "C1", "theory", "F1"),
                 ScenarioCourse(2, "C2", "theory", "F1"),
                 ScenarioCourse(3, "C3", "lab", "F1"),
                 ScenarioCourse(4, "C4", "lab", "F2")>>,
   faculties |-> <<"F1", "F2">>,
   rooms |-> <<Classroom("R1"), [name |-> "LabA", type |-> "lab", capacity |-> 30],
               [name |-> "LabB", type |-> "lab", capacity |-> 30]>>,
   timeslots |-> <<SampleTimeslots[1], SampleTimeslots[6], SampleTimeslots[7]>>]

\* Caller overrides of the scenario calls: none, or a minimum gap of 20 minutes.
ScenarioConstraintChoices == {<< >>, [MIN_BREAK_BETWEEN_CLASSES |-> 20]}

InitScenario ==
  /\ sectionData \in {ScenarioCatalogue, TwoTeacherCatalogue, SampleCatalogue,
                     LabPairCatalogue}
  /\ constraints \in ScenarioConstraintChoices
  /\ timetable = InitializeTimetable
  /\ pc = "theory"
  /\ ci = 1
  /\ attempts = 0
  /\ warned = {}
  /\ returned = << >>
  /\ SingleCall
  /\ AuthManagerUnused

SpecScenario == InitScenario /\ [][Next]_vars

(***************************************************************************)
(* A call on a section of a full week: teachers FA and FB with five theory *)
(* courses each, teacher FL with two lab courses, one theory timeslot      *)
(* 2:00-3:00 and one lab timeslot 12:00-2:00, no lab room.  The courses of *)
(* FA fit only R1 (capacity 60); those of FB expect 100 students, fit no   *)
(* room and get the first classroom of the list, R2.  The call is followed *)
(* from the point of scheduleTheoryCourses where the five courses of FA    *)
(* have been placed, by the draws Monday to Friday in turn (each of them   *)
(* accepted: the teacher and R1 are free on a day not drawn before).       *)
(***************************************************************************)
WeekCourse(id, code, type, teacherId, expectedStudents) ==
  [id |-> id, code |-> code, type |-> type, teacherId |-> teacherId,
   expectedStudents |-> expectedStudents]

WeekCatalogue ==
  [courses |-> <<WeekCourse(1, "A1", "theory", "FA", 60),
                 WeekCourse(2, "A2", "theory", "FA", 60),
                 WeekCourse(3, "A3", "theory", "FA", 60),
                 WeekCourse(4, "A4", "theory", "FA", 60),
                 WeekCourse(5, "A5", "theory", "FA", 60),
                 WeekCourse(6, "B1", "theory", "FB", 100),
                 WeekCourse(7, "B2", "theory", "FB", 100),
                 WeekCourse(8, "B3", "theory", "FB", 100),
                 WeekCourse(9, "B4", "theory", "FB", 100),
                 WeekCourse(10, "B5", "theory", "FB", 100),
                 WeekCourse(11, "L1", "lab", "FL", 30),
                 WeekCourse(12, "L2", "lab", "FL", 30)>>,
   faculties |-> <<"FA", "FB", "FL">>,
   rooms |-> <<[name |-> "R2", type |-> "classroom", capacity |-> 30],
               Classroom("R1")>>,
   timeslots |-> <<[start |-> Clock(2, 0), end |-> Clock(3, 0), type |-> "theory"],
                   [start |-> Clock(12, 0), end |-> Clock(2, 0), type |-> "lab"]>>]

\* The grid after the accepted draws (RandomDays[i], the theory timeslot) for
\* the i-th course of the catalogue, i = 1..5.
WeekPrefixGrid ==
  [d \in DayNames |->
     IF \E i \in 1..Len(RandomDays) : RandomDays[i] = d
     THEN <<TheorySession(
              WeekCatalogue.courses[CHOOSE i \in 1..Len(RandomDays) : RandomDays[i] = d],
              WeekCatalogue.timeslots[1], "R1")>>
     ELSE << >>]

InitWeek ==
  /\ sectionData = WeekCatalogue
  /\ constraints = << >>
  /\ timetable = WeekPrefixGrid
  /\ pc = "theory"
  /\ ci = Len(RandomDays) + 1
  /\ attempts = 0
  /\ warned = {}
  /\ returned = << >>
  /\ SingleCall
  /\ AuthManagerUnused

SpecWeek == InitWeek /\ [][Next]_vars

(***************************************************************************)
(* Two calls on the shared instance.  A call runs without interruption     *)
(* between its awaits (scheduleTheoryCourses and scheduleLabCourses have   *)
(* no await of their own); at an await, or when it ends, the event loop    *)
(* may run the other call.  The variables of a call are its frame; the     *)
(* frame of the call that does not run is kept in suspended.               *)
(***************************************************************************)
Frame ==
  [sectionData |-> sectionData, constraints |-> constraints,
   timetable |-> timetable, pc |-> pc, ci |-> ci, attempts |-> attempts,
   warned |-> warned, returned |-> returned]

\* The running call is at `await this.scheduleTheoryCourses(...)` or at
\* `await this.scheduleLabCourses(...)`, the awaited function having returned.
AtAwait ==
  \/ pc = "lab" /\ ci = 1 /\ attempts = 0
  \/ pc = "breaks"

\* Yield with a grid kept by the instance instead of the call.
Yield_SharedGrid ==
  /\ Len(suspended) = 1
  /\ AtAwait \/ pc \in {"done", "raised"}
  /\ suspended[1].pc \notin {"done", "raised"}
  /\ sectionData' = suspended[1].sectionData
  /\ constraints' = suspended[1].constraints
  /\ pc' = suspended[1].pc
  /\ ci' = suspended[1].ci
  /\ attempts' = suspended[1].attempts
  /\ warned' = suspended[1].warned
  /\ returned' = suspended[1].returned
  /\ suspended' = <<Frame>>
  /\ UNCHANGED <<instanceConstraints, timetable>>
  /\ UNCHANGED authVars

\* The running call waits or has ended, and the other call runs.
Yield ==
  /\ Len(suspended) = 1
  /\ AtAwait \/ pc \in {"done", "raised"}
  /\ suspended[1].pc \notin {"done", "raised"}
  /\ sectionData' = suspended[1].sectionData
  /\ constraints' = suspended[1].constraints
  /\ timetable' = suspended[1].timetable
  /\ pc' = suspended[1].pc
  /\ ci' = suspended[1].ci
  /\ attempts' = suspended[1].attempts
  /\ warned' = suspended[1].warned
  /\ returned' = suspended[1].returned
  /\ suspended' = <<Frame>>
  /\ UNCHANGED instanceConstraints
  /\ UNCHANGED authVars

\* The catalogues of the two calls: two sections with courses of their own
\* that share the teacher, the rooms and the timeslots.
FirstCallCatalogue ==
  [SampleCatalogue EXCEPT !.timeslots = SubSeq(SlotPool, 1, 2)]

SecondCallCatalogue ==
  [courses |-> <<ScenarioCourse(1, "D1", "theory", "F1")>>,
   faculties |-> <<"F1">>,
   rooms |-> SampleCatalogue.rooms,
   timeslots |-> SubSeq(SlotPool, 1, 2)]

\* generateTimetable is called twice in a row: the first call runs, the
\* second is entered (its own initializeTimetable() grid) and waits.
InitConcurrent ==
  /\ sectionData = FirstCallCatalogue
  /\ constraints \in ScenarioConstraintChoices
  /\ timetable = InitializeTimetable
  /\ pc = "theory"
  /\ ci = 1
  /\ attempts = 0
  /\ warned = {}
  /\ returned = << >>
  /\ instanceConstraints = DefaultConstraints
  /\ AuthManagerUnused
  /\ \E overrides \in ScenarioConstraintChoices :
       suspended = <<[sectionData |-> SecondCallCatalogue,
                      constraints |-> overrides,
                      timetable |-> InitializeTimetable,
                      pc |-> "theory", ci |-> 1, attempts |-> 0,
                      warned |-> {}, returned |-> << >>]>>

NextConcurrent ==
  \/ Next
  \/ Yield

SpecConcurrent == InitConcurrent /\ [][NextConcurrent]_vars

\* The steps of the two construction loops.
Construction ==
  \/ TheoryAttempt
  \/ TheoryUnscheduled
  \/ TheoryDone
  \/ LabAttempt
  \/ LabUnscheduled
  \/ LabDone

\* Calls on the sample catalogue cut to its first courses, without override
\* or with a ceiling of one class a day.
InitSample ==
  /\ sectionData \in {[SampleCatalogue EXCEPT !.courses = SubSeq(@, 1, n)] :
                        n \in 0..Len(SampleCatalogue.courses)}
  /\ constraints \in ConstraintChoices
  /\ timetable = InitializeTimetable
  /\ pc = "theory"
  /\ ci = 1
  /\ attempts = 0
  /\ warned = {}
  /\ returned = << >>
  /\ SingleCall
  /\ AuthManagerUnused

\* A call runs on: the event loop resumes it after each await, and between
\* awaits its statements follow one another.  The last two conjuncts are
\* WF_vars(AddBreaksAndLunch) and WF_vars(OptimizeAndReturn) with the
\* enabling condition of each step written out (its value of pc).
SpecSampleFair ==
  /\ InitSample
  /\ [][Next]_vars
  /\ WF_vars(Construction)
  /\ ([]<>(pc # "breaks") \/ []<><<AddBreaksAndLunch>>_vars)
  /\ ([]<>(pc # "optimize") \/ []<><<OptimizeAndReturn>>_vars)

(***************************************************************************)
(* calculateTimetableScore's conflict scan.                                *)
(***************************************************************************)
\* The walk of detectConflicts over one day from position i; st is
\* [conflicts, teacherSlots, roomSlots].  A conflict message is modelled by
\* the values it is built from.
RECURSIVE ConflictWalk(_, _, _, _)
ConflictWalk(st, day, classes, i) ==
  IF i > Len(classes) THEN st
  ELSE LET cls == classes[i]
           teacherKey == <<day, cls.time, cls.teacher>>
           roomKey == <<day, cls.time, cls.room>>
           teacherHit == teacherKey \in st.teacherSlots
           roomHit == roomKey \in st.roomSlots
       IN IF Truthy(cls.teacher) /\ Truthy(cls.room)
          THEN ConflictWalk(
                 [conflicts |->
                    st.conflicts
                      \o (IF teacherHit
                          THEN <<[kind |-> "Teacher", who |-> cls.teacher,
                                  day |-> day, time |-> cls.time]>>
                          ELSE << >>)
                      \o (IF roomHit
                          THEN <<[kind |-> "Room", who |-> cls.room,
                                  day |-> day, time |-> cls.time]>>
                          ELSE << >>),
                  teacherSlots |-> st.teacherSlots \cup {teacherKey},
                  roomSlots |-> st.roomSlots \cup {roomKey}],
                 day, classes, i + 1)
          ELSE ConflictWalk(st, day, classes, i + 1)

RECURSIVE ConflictDays(_, _, _)
ConflictDays(st, tt, di) ==
  IF di > Len(Days) THEN st
  ELSE ConflictDays(ConflictWalk(st, Days[di], tt[Days[di]], 1), tt, di + 1)

detectConflicts(tt) ==
  ConflictDays([conflicts |-> << >>, teacherSlots |-> {}, roomSlots |-> {}],
               tt, 1).conflicts

Max(a, b) == IF a >= b THEN a ELSE b

\* calculateBalanceScore: Object.values(timetable) are the six days' arrays.
calculateBalanceScore(tt) ==
  LET dayCounts == [di \in 1..Len(Days) |-> ClassCount(tt[Days[di]])]
      max == CHOOSE m \in Range(dayCounts) : \A n \in Range(dayCounts) : m >= n
      min == CHOOSE m \in Range(dayCounts) : \A n \in Range(dayCounts) : m <= n
  IN (max - min) * (-5)

\* calculateTimetableScore without the Math.max(0, score) of its return.
calculateTimetableScore_NoClamp(tt) ==
  100 - Len(detectConflicts(tt)) * 10 + calculateBalanceScore(tt)

calculateTimetableScore(tt) ==
  Max(0, 100 - Len(detectConflicts(tt)) * 10 + calculateBalanceScore(tt))

(***************************************************************************)
(* calculateTimetableScore called on a grid of any content: the grid is    *)
(* filled entry by entry from a pool of two sessions of one teacher in two *)
(* rooms, a session of another teacher in the first room (all at one       *)
(* time) and a lunch marker, and then scored.                              *)
(***************************************************************************)
MaxGridEntries == 5

GridEntryPool ==
  <<TheorySession(ScenarioCourse(1, "C1", "theory", "F1"), SampleTimeslots[1], "R1"),
    LabSession(ScenarioCourse(2, "C2", "lab", "F1"), SampleTimeslots[1], "R2"),
    TheorySession(ScenarioCourse(3, "C3", "theory", "F2"), SampleTimeslots[1], "R1"),
    Marker(lunchTime, "lunch")>>

InitScore ==
  /\ sectionData = [courses |-> << >>, faculties |-> << >>, rooms |-> << >>,
                    timeslots |-> << >>]
  /\ constraints = << >>
  /\ timetable = InitializeTimetable
  /\ pc = "grid"
  /\ ci = 1
  /\ attempts = 0
  /\ warned = {}
  /\ returned = << >>
  /\ SingleCall
  /\ AuthManagerUnused

\* The caller puts one more entry into the grid it will have scored.
PutEntry ==
  /\ pc = "grid"
  /\ SumSeq([di \in 1..Len(Days) |-> Len(timetable[Days[di]])]) < MaxGridEntries
  /\ \E d \in DayNames : \E k \in 1..Len(GridEntryPool) :
       timetable' = [timetable EXCEPT ![d] = Append(@, GridEntryPool[k])]
  /\ UNCHANGED <<instanceConstraints, suspended>>
  /\ UNCHANGED authVars
  /\ UNCHANGED <<sectionData, constraints, pc, ci, attempts, warned, returned>>

\* The call of calculateTimetableScore; returned holds its result.
ScoreGrid ==
  /\ pc = "grid"
  /\ returned' = <<calculateTimetableScore(timetable)>>
  /\ pc' = "scored"
  /\ UNCHANGED <<instanceConstraints, suspended>>
  /\ UNCHANGED authVars
  /\ UNCHANGED <<sectionData, constraints, timetable, ci, attempts, warned>>

NextScore ==
  \/ PutEntry
  \/ ScoreGrid

SpecScore == InitScore /\ [][NextScore]_vars

(***************************************************************************)
(* The passes called on a grid of any content.  The grid is filled entry   *)
(* by entry, the days in key order, from four kinds of entry: a theory     *)
(* session of F1 at 8:30-9:30, a theory session of F2 at 11:30-12:30, a    *)
(* lab of F2 at 2:00-4:00 and a lunch marker; every session is an object   *)
(* of its own (its id).  Grids of sessions of the first kind only may grow *)
(* to MaxClashEntries entries, one more than there are days.  timetable    *)
(* keeps the grid as it was handed over, returned holds the call and the   *)
(* grid after it.                                                          *)
(***************************************************************************)
MaxPassEntries == 4
MaxClashEntries == 7

LunchHourSlot == [start |-> Clock(11, 30), end |-> Clock(12, 30), type |-> "theory"]

PassKinds == 1..4

PassEntry(kind, id) ==
  CASE kind = 1 ->
         TheorySession(ScenarioCourse(id, "C1", "theory", "F1"), SampleTimeslots[1], "R1")
    [] kind = 2 ->
         TheorySession(ScenarioCourse(id, "C2", "theory", "F2"), LunchHourSlot, "R1")
    [] kind = 3 ->
         LabSession(ScenarioCourse(id, "C3", "lab", "F2"), SampleTimeslots[7], "LabA")
    [] OTHER -> Marker(lunchTime, "lunch")

GridSize(tt) == SumSeq([di \in 1..Len(Days) |-> Len(tt[Days[di]])])

InitPasses ==
  /\ sectionData = [courses |-> << >>, faculties |-> << >>, rooms |-> << >>,
                    timeslots |-> << >>]
  /\ constraints = << >>
  /\ timetable = InitializeTimetable
  /\ pc = "fill"
  /\ ci = 1
  /\ attempts = 0
  /\ warned = {}
  /\ returned = << >>
  /\ SingleCall
  /\ AuthManagerUnused

\* The caller puts one more entry into the grid, on the last day in use or
\* on a later one.
FillEntry ==
  /\ pc = "fill"
  /\ \E di \in 1..Len(Days) : \E kind \in PassKinds :
       /\ \A dj \in (di + 1)..Len(Days) : Len(timetable[Days[dj]]) = 0
       /\ \/ GridSize(timetable) < MaxPassEntries
          \/ /\ GridSize(timetable) < MaxClashEntries
             /\ kind = 1
             /\ \A d \in DayNames : \A i \in 1..Len(timetable[d]) :
                  timetable[d][i].code = "C1"
       /\ timetable' = [timetable EXCEPT ![Days[di]] =
                          Append(@, PassEntry(kind, GridSize(timetable) + 1))]
  /\ UNCHANGED <<instanceConstraints, suspended>>
  /\ UNCHANGED authVars
  /\ UNCHANGED <<sectionData, constraints, pc, ci, attempts, warned, returned>>

\* The record of a call: its name, the day and the argument it was given
\* (Undefined and 0 when it takes none) and the grid after it.
CallRecord(call, day, arg, grid) ==
  [call |-> call, day |-> day, arg |-> arg, grid |-> grid]

CallAddBreaksAndLunch ==
  /\ pc = "fill"
  /\ returned' = <<CallRecord("addBreaksAndLunch", Undefined, 0,
                              addBreaksAndLunch(timetable))>>
  /\ pc' = "called"
  /\ UNCHANGED <<instanceConstraints, suspended>>
  /\ UNCHANGED authVars
  /\ UNCHANGED <<sectionData, constraints, timetable, ci, attempts, warned>>

CallResolveTeacherConflicts ==
  /\ pc = "fill"
  /\ returned' = <<CallRecord("resolveTeacherConflicts", Undefined, 0,
                              resolveTeacherConflicts(timetable))>>
  /\ pc' = "called"
  /\ UNCHANGED <<instanceConstraints, suspended>>
  /\ UNCHANGED authVars
  /\ UNCHANGED <<sectionData, constraints, timetable, ci, attempts, warned>>

\* moveClassToResolveConflict(timetable, day, timetable[day][i]) for a
\* session of the grid.
CallMoveClassToResolveConflict ==
  /\ pc = "fill"
  /\ \E d \in DayNames : \E i \in 1..Len(timetable[d]) :
       /\ IsSession(timetable[d][i])
       /\ returned' = <<CallRecord("moveClassToResolveConflict", d, i,
                          moveClassToResolveConflict(timetable, d, timetable[d][i]))>>
  /\ pc' = "called"
  /\ UNCHANGED <<instanceConstraints, suspended>>
  /\ UNCHANGED authVars
  /\ UNCHANGED <<sectionData, constraints, timetable, ci, attempts, warned>>

CallBalanceDailyWorkload ==
  /\ pc = "fill"
  /\ returned' = <<CallRecord("balanceDailyWorkload", Undefined, 0,
                              balanceDailyWorkload(timetable))>>
  /\ pc' = "called"
  /\ UNCHANGED <<instanceConstraints, suspended>>
  /\ UNCHANGED authVars
  /\ UNCHANGED <<sectionData, constraints, timetable, ci, attempts, warned>>

\* redistributeClasses(timetable, fromDay, numClassesToMove) for a day that
\* holds sessions and a number up to their count.
CallRedistributeClasses ==
  /\ pc = "fill"
  /\ \E d \in DayNames : \E n \in 1..ClassCount(timetable[d]) :
       returned' = <<CallRecord("redistributeClasses", d, n,
                                redistributeClasses(timetable, d, n))>>
  /\ pc' = "called"
  /\ UNCHANGED <<instanceConstraints, suspended>>
  /\ UNCHANGED authVars
  /\ UNCHANGED <<sectionData, constraints, timetable, ci, attempts, warned>>

CallOptimizeTimetable ==
  /\ pc = "fill"
  /\ returned' = <<CallRecord("optimizeTimetable", Undefined, 0,
                              optimizeTimetable(timetable))>>
  /\ pc' = "called"
  /\ UNCHANGED <<instanceConstraints, suspended>>
  /\ UNCHANGED authVars
  /\ UNCHANGED <<sectionData, constraints, timetable, ci, attempts, warned>>

NextPasses ==
  \/ FillEntry
  \/ CallAddBreaksAndLunch
  \/ CallResolveTeacherConflicts
  \/ CallMoveClassToResolveConflict
  \/ CallBalanceDailyWorkload
  \/ CallRedistributeClasses
  \/ CallOptimizeTimetable

SpecPasses == InitPasses /\ [][NextPasses]_vars

(***************************************************************************)
(* AuthManager (src/auth.js) on one page.  A step is one synchronous run   *)
(* of its code: the part of a method or of the auth-state callback between *)
(* two awaits.  The Firebase auth object keeps the signed-in user and owes *)
(* the listener one call per change of user, delivered in order; the users *)
(* collection is the fixed userDocuments.  Each awaited promise settles    *)
(* either way.  One login call is in flight at a time; the page starts at  *)
(* most MaxLoginCalls logins and MaxLogoutCalls logouts.                   *)
(***************************************************************************)
MaxLoginCalls == 2
MaxLogoutCalls == 2

\* saveSession(userData), as the new content of localStorage.
saveSession(storage, userData) ==
  [storage EXCEPT !["userData"] = JSONstringify(userData),
                  !["userRole"] = userData.role,
                  !["userEmail"] = userData.email,
                  !["lastLogin"] = "now"]

\* clearSession(), as the new content of localStorage.
clearSession(storage) ==
  [k \in DOMAIN storage |->
     IF k \in {"userData", "userRole", "userEmail", "isDemoUser", "rememberMe",
               "lastLogin"}
     THEN Null ELSE storage[k]]

\* restoreSession(), as the value of this.currentUser after it.
restoreSession(storage) ==
  IF /\ TruthyString(storage["userData"])
     /\ TruthyString(storage["userRole"])
     /\ TruthyString(storage["userEmail"])
  THEN <<[email |-> storage["userEmail"], data |-> <<JSONparse(storage["userData"])>>]>>
  ELSE NoUser

isDemoUser(email, password) ==
  email \in DOMAIN demoUsers /\ demoUsers[email].password = password

isAuthenticated ==
  currentUser # NoUser
    \/ (TruthyString(getItem("userData")) /\ TruthyString(getItem("userRole")))

hasRole(requiredRole) == getItem("userRole") = requiredRole

\* The arguments of the login calls.
LoginInputs ==
  {<<"student@demo.com", "student123">>,
   <<"student@demo.com", "wrong">>,
   <<"active@college.edu", firebaseAccounts["active@college.edu"]>>,
   <<"active@college.edu", "wrong">>,
   <<"inactive@college.edu", firebaseAccounts["inactive@college.edu"]>>,
   <<"nodoc@college.edu", firebaseAccounts["nodoc@college.edu"]>>}

\* The Firebase auth object after its user has become user: the listener is
\* owed a call when the user has changed.
SetAuthUser(fa, user) ==
  IF fa.currentUser = user
  THEN fa
  ELSE [fa EXCEPT !.currentUser = user, !.listenerCalls = Append(@, user)]

\* What the pages a browser can load hold: nothing, the session of a login
\* of the active account, or the session of a demo login.
StoredPages ==
  {[storage |-> EmptyStorage, user |-> Null],
   [storage |-> saveSession(EmptyStorage, userDocuments["active@college.edu"]),
    user |-> "active@college.edu"],
   [storage |-> [saveSession(EmptyStorage, demoUserData("student@demo.com"))
                   EXCEPT !["isDemoUser"] = "true"],
    user |-> Null]}

\* The timetable generator is not used by the calls of the AuthManager.
GeneratorUnused ==
  /\ sectionData = [courses |-> << >>, faculties |-> << >>, rooms |-> << >>,
                    timeslots |-> << >>]
  /\ constraints = << >>
  /\ timetable = InitializeTimetable
  /\ pc = "unused"
  /\ ci = 1
  /\ attempts = 0
  /\ warned = {}
  /\ returned = << >>
  /\ SingleCall

\* new AuthManager(): restoreSession has run and the listener is registered;
\* Firebase owes it the first call, with the user it has kept.
InitAuth ==
  /\ \E page \in StoredPages :
       /\ localStorage = page.storage
       /\ currentUser = restoreSession(page.storage)
       /\ firebaseAuth = [currentUser |-> page.user, listenerCalls |-> <<page.user>>,
                          signOutCalls |-> 0]
  /\ authCalls = NoAuthCalls
  /\ GeneratorUnused

\* handleDemoLogin(email).
handleDemoLogin(email) ==
  /\ currentUser' = <<[email |-> email, data |-> <<demoUserData(email)>>]>>
  /\ localStorage' = [saveSession(localStorage, demoUserData(email))
                        EXCEPT !["isDemoUser"] = "true"]

\* login ends: the outcome is logged and the call is over.
LoginEnds(calls, outcome) ==
  [calls EXCEPT !.login = NoAuthCalls.login,
                !.loginLog = @ \cup {<<calls.login.email, outcome>>}]

\* login(email, password) up to its first await, or to its return for a demo
\* user.
LoginStart ==
  /\ authCalls.login.at = "idle"
  /\ authCalls.logins < MaxLoginCalls
  /\ \E input \in LoginInputs :
       LET started ==
             [authCalls EXCEPT !.logins = @ + 1,
                               !.login = [at |-> "signIn", email |-> input[1],
                                          password |-> input[2]],
                               !.sinceLogout = IF @ = "quiet" THEN "login" ELSE @]
       IN IF isDemoUser(input[1], input[2])
          THEN /\ handleDemoLogin(input[1])
               /\ authCalls' = LoginEnds(started, "demo")
               /\ UNCHANGED firebaseAuth
          ELSE /\ authCalls' = started
               /\ UNCHANGED <<currentUser, localStorage, firebaseAuth>>
  /\ UNCHANGED generatorVars

\* signInWithEmailAndPassword settles: resolved only for the password of an
\* account; login goes on to getUserByEmail, or rethrows.
SignInSettles ==
  /\ authCalls.login.at = "signIn"
  /\ \E resolved \in BOOLEAN :
       LET email == authCalls.login.email
       IN /\ resolved => /\ email \in DOMAIN firebaseAccounts
                         /\ firebaseAccounts[email] = authCalls.login.password
          /\ IF resolved
             THEN /\ firebaseAuth' = SetAuthUser(firebaseAuth, email)
                  /\ authCalls' = [authCalls EXCEPT !.login.at = "getUser"]
             ELSE /\ authCalls' = LoginEnds(authCalls, "sign-in failed")
                  /\ UNCHANGED firebaseAuth
  /\ UNCHANGED <<currentUser, localStorage>>
  /\ UNCHANGED generatorVars

\* login's getUserByEmail settles: no document and a deactivated account
\* throw, otherwise login goes on to updateUser.
LoginLookupSettles ==
  /\ authCalls.login.at = "getUser"
  /\ \E resolved \in BOOLEAN :
       LET userData == getUserByEmail(authCalls.login.email)
       IN authCalls' =
            IF ~resolved THEN LoginEnds(authCalls, "lookup failed")
            ELSE IF userData = << >> THEN LoginEnds(authCalls, "no user data")
            ELSE IF ~userData[1].isActive THEN LoginEnds(authCalls, "deactivated")
            ELSE [authCalls EXCEPT !.login.at = "updateUser"]
  /\ UNCHANGED <<currentUser, localStorage, firebaseAuth>>
  /\ UNCHANGED generatorVars

\* login's updateUser settles: the session is set and saved, or login
\* rethrows.
LoginUpdateSettles ==
  /\ authCalls.login.at = "updateUser"
  /\ \E resolved \in BOOLEAN :
       LET email == authCalls.login.email
           userData == getUserByEmail(email)
       IN IF resolved
          THEN /\ currentUser' = <<[email |-> email, data |-> userData]>>
               /\ localStorage' = saveSession(localStorage, userData[1])
               /\ authCalls' = LoginEnds(authCalls, "success")
          ELSE /\ authCalls' = LoginEnds(authCalls, "update failed")
               /\ UNCHANGED <<currentUser, localStorage>>
  /\ UNCHANGED firebaseAuth
  /\ UNCHANGED generatorVars

\* The onAuthStateChanged callback up to its await, or to its end for null.
AuthStateChanged ==
  /\ firebaseAuth.listenerCalls # << >>
  /\ LET user == Head(firebaseAuth.listenerCalls)
     IN /\ firebaseAuth' = [firebaseAuth EXCEPT !.listenerCalls = Tail(@)]
        /\ IF user # Null
           THEN /\ currentUser' = <<[email |-> user, data |-> << >>]>>
                /\ authCalls' = [authCalls EXCEPT !.lookups = Append(@, user)]
                /\ UNCHANGED localStorage
           ELSE /\ currentUser' = NoUser
                /\ localStorage' = clearSession(localStorage)
                /\ UNCHANGED authCalls
  /\ UNCHANGED generatorVars

\* The callback after its await: with a document, this.currentUser.data is
\* set and the session saved; the TypeError of a null this.currentUser and a
\* rejected lookup end in the catch.
CallbackLookupSettles ==
  /\ \E i \in 1..Len(authCalls.lookups) :
     \E resolved \in BOOLEAN :
       LET userData == getUserByEmail(authCalls.lookups[i])
       IN /\ authCalls' =
               [authCalls EXCEPT !.lookups =
                  SubSeq(@, 1, i - 1) \o SubSeq(@, i + 1, Len(@))]
          /\ IF resolved /\ userData # << >> /\ currentUser # NoUser
             THEN /\ currentUser' = <<[currentUser[1] EXCEPT !.data = userData]>>
                  /\ localStorage' = saveSession(localStorage, userData[1])
             ELSE UNCHANGED <<currentUser, localStorage>>
  /\ UNCHANGED firebaseAuth
  /\ UNCHANGED generatorVars

\* logout() up to its await: the session is cleared, then isDemoUser is read
\* and signOut called.
LogoutStart ==
  /\ authCalls.logout = "idle"
  /\ authCalls.logouts < MaxLogoutCalls
  /\ localStorage' = clearSession(localStorage)
  /\ currentUser' = NoUser
  /\ IF ~TruthyString(clearSession(localStorage)["isDemoUser"])
     THEN /\ firebaseAuth' = [firebaseAuth EXCEPT !.signOutCalls = @ + 1]
          /\ authCalls' = [authCalls EXCEPT !.logout = "signOut", !.logouts = @ + 1]
     ELSE /\ authCalls' = [authCalls EXCEPT !.logouts = @ + 1,
                                           !.sinceLogout = "quiet"]
          /\ UNCHANGED firebaseAuth
  /\ UNCHANGED generatorVars

\* signOut settles: resolved, Firebase has no user; rejected, logout's catch
\* clears the session again and rethrows.
SignOutSettles ==
  /\ authCalls.logout = "signOut"
  /\ \E resolved \in BOOLEAN :
       IF resolved
       THEN /\ firebaseAuth' = SetAuthUser(firebaseAuth, Null)
            /\ authCalls' = [authCalls EXCEPT !.logout = "signedOut"]
            /\ UNCHANGED <<currentUser, localStorage>>
       ELSE /\ localStorage' = clearSession(localStorage)
            /\ currentUser' = NoUser
            /\ authCalls' = [authCalls EXCEPT !.logout = "idle"]
            /\ UNCHANGED firebaseAuth
  /\ UNCHANGED generatorVars

\* logout() after its await: it returns { success: true }.
LogoutReturns ==
  /\ authCalls.logout = "signedOut"
  /\ authCalls' = [authCalls EXCEPT !.logout = "idle", !.sinceLogout = "quiet"]
  /\ UNCHANGED <<currentUser, localStorage, firebaseAuth>>
  /\ UNCHANGED generatorVars

NextAuth ==
  \/ LoginStart
  \/ SignInSettles
  \/ LoginLookupSettles
  \/ LoginUpdateSettles
  \/ AuthStateChanged
  \/ CallbackLookupSettles
  \/ LogoutStart
  \/ SignOutSettles
  \/ LogoutReturns

SpecAuth == InitAuth /\ [][NextAuth]_vars

(***************************************************************************)
(* Properties of the returned grid.                                        *)
(***************************************************************************)
Returned == returned[1]

\* The theory and lab sessions of a grid, each with its day.
SessionsOf(tt) ==
  UNION {{[day |-> d, cls |-> tt[d][i]] :
            i \in {k \in 1..Len(tt[d]) : IsSession(tt[d][k])}} : d \in DayNames}

\* Two different sessions of the same day and time.
SameSlot(a, b) ==
  /\ a.day = b.day
  /\ a.cls.id # b.cls.id
  /\ a.cls.time = b.cls.time

TeacherClash(tt) ==
  \E a \in SessionsOf(tt) : \E b \in SessionsOf(tt) :
    SameSlot(a, b) /\ a.cls.teacher = b.cls.teacher

RoomClash(tt) ==
  \E a \in SessionsOf(tt) : \E b \in SessionsOf(tt) :
    SameSlot(a, b) /\ a.cls.room = b.cls.room

\* C1: in the returned grid no two sessions of the same day and time have
\* the same teacher.
C1_NoTeacherDoubleBooking == pc = "done" => ~TeacherClash(Returned.grid)

\* C2: in the returned grid no two sessions of the same day and time have
\* the same room.
C2_NoRoomDoubleBooking == pc = "done" => ~RoomClash(Returned.grid)

\* C3: in the returned grid every day holds at most MAX_CLASSES_PER_DAY (as
\* merged for the call) theory and lab sessions.
C3_DailyCeiling ==
  pc = "done" =>
    \A d \in DayNames :
      ClassCount(Returned.grid[d]) <= Returned.constraints.MAX_CLASSES_PER_DAY

\* The report's list of unplaced courses: the returned object has no such
\* field unless the code puts one there.
ReportedUnplaced(result) ==
  IF "unplaced" \in DOMAIN result THEN result.unplaced ELSE {}

\* C4: every course of the catalogue is a session of the returned grid or is
\* listed as unplaced in the returned value.
C4_EveryCourseAccountedFor ==
  pc = "done" =>
    \A k \in 1..Len(sectionData.courses) :
      \/ \E s \in SessionsOf(Returned.grid) : s.cls.id = sectionData.courses[k].id
      \/ sectionData.courses[k].id \in ReportedUnplaced(Returned)

\* C5: with a lab course and no lab-kind timeslot, or a theory course and no
\* theory-kind timeslot, generateTimetable does not raise.
C5_NoSlotsNoRaise ==
  (\/ Len(labCourses) > 0 /\ Len(labSlots) = 0
   \/ Len(theoryCourses) > 0 /\ Len(theorySlots) = 0)
    => pc # "raised"

InvalidCatalogue ==
  \/ \E k \in 1..Len(sectionData.courses) :
       sectionData.courses[k].teacherId \notin Range(sectionData.faculties)
  \/ Len(sectionData.rooms) = 0
  \/ Len(sectionData.timeslots) = 0

\* C6: on a catalogue with an unknown teacher, no room or no timeslot the call
\* places no session and returns no grid.
C6_InvalidCatalogueRejected ==
  InvalidCatalogue =>
    /\ pc # "done"
    /\ \A d \in DayNames : Len(timetable[d]) = 0

LabSessionsOf(tt, course) ==
  {s \in SessionsOf(tt) : s.cls.type = "lab" /\ s.cls.code = course.code \o "L"}

\* C7: in the returned grid every lab course has at most one lab session, and
\* that session has the time of one lab-kind timeslot and a duration of 2.
C7_OneLabBlockPerCourse ==
  pc = "done" =>
    \A k \in 1..Len(labCourses) :
      /\ Cardinality(LabSessionsOf(Returned.grid, labCourses[k])) <= 1
      /\ \A s \in LabSessionsOf(Returned.grid, labCourses[k]) :
           /\ s.cls.duration = 2
           /\ \E i \in 1..Len(labSlots) :
                s.cls.time = FormatTime(labSlots[i].start, labSlots[i].end)

\* A returned grid that holds the lab session of a lab course listed twice.
C7_Witness ==
  /\ pc = "done"
  /\ Len(labCourses) >= 2
  /\ \E s \in SessionsOf(Returned.grid) : s.cls.type = "lab"

Wanted(course) ==
  IF course.expectedStudents # 0 THEN course.expectedStudents ELSE 60

RequiredRoomType(course) == IF course.type = "lab" THEN "lab" ELSE "classroom"

QualifyingRooms(course) ==
  {r \in Range(sectionData.rooms) :
     r.type = RequiredRoomType(course) /\ r.capacity >= Wanted(course)}

\* C8: in the returned grid a session's room has the capacity its course
\* wants whenever the catalogue has a room of the required type with it.
C8_RoomFitsEnrollment ==
  pc = "done" =>
    \A s \in SessionsOf(Returned.grid) :
      LET course == sectionData.courses[s.cls.id] IN
        QualifyingRooms(course) # {} =>
          \E r \in Range(sectionData.rooms) :
            r.name = s.cls.room /\ r.capacity >= Wanted(course)

\* C9: every teacher or room that detectConflicts finds double-booked in the
\* returned grid is double-booked in the grid the optimizer was given.
C9_OptimizerAddsNoConflict ==
  pc = "done" =>
    \A i \in 1..Len(detectConflicts(Returned.grid)) :
      \E j \in 1..Len(detectConflicts(timetable)) :
        /\ detectConflicts(timetable)[j].kind = detectConflicts(Returned.grid)[i].kind
        /\ detectConflicts(timetable)[j].who = detectConflicts(Returned.grid)[i].who

\* C10: at the end of construction no two sessions of the same day and time
\* have the same teacher.
C10_ConstructionTeacherFree == pc = "breaks" => ~TeacherClash(timetable)

\* The end of a construction that placed two theory sessions of one teacher.
C10_Witness ==
  /\ pc = "breaks"
  /\ \E a \in SessionsOf(timetable) : \E b \in SessionsOf(timetable) :
       /\ a.cls.id # b.cls.id
       /\ a.cls.type = "theory" /\ b.cls.type = "theory"
       /\ a.cls.teacher = b.cls.teacher

(***************************************************************************)
(* The score of a generated grid.                                          *)
(***************************************************************************)
\* A returned scenario call that placed both of its courses.
ScenarioPlaced ==
  /\ pc = "done"
  /\ sectionData = ScenarioCatalogue
  /\ \A k \in 1..Len(sectionData.courses) :
       \E s \in SessionsOf(Returned.grid) : s.cls.id = sectionData.courses[k].id

\* C11 as stated: on the scenario catalogue (one faculty, one classroom of
\* capacity 60, five theory timeslots, two theory courses of enrollment 50)
\* the score of the returned grid is 100 whenever both courses are placed.
C11_ScenarioScoreIs100 ==
  ScenarioPlaced => calculateTimetableScore(Returned.grid) = 100

\* C11 amended: on the scenario catalogue the score of the returned grid is
\* 95 whenever both courses are placed: no conflict is detected, and the
\* fullest day holds one session while another day holds none.
C11_ScenarioScoreIs95 ==
  ScenarioPlaced =>
    /\ Len(detectConflicts(Returned.grid)) = 0
    /\ calculateBalanceScore(Returned.grid) = -5
    /\ calculateTimetableScore(Returned.grid) = 95

\* A returned scenario call whose two courses were constructed on one day.
C11_Witness ==
  /\ ScenarioPlaced
  /\ \E d \in DayNames : ClassCount(timetable[d]) = 2


\* The positions of the theory and lab sessions of a grid.
SessionPositions(tt) ==
  UNION {{<<d, i>> : i \in {k \in 1..Len(tt[d]) : IsSession(tt[d][k])}} :
           d \in DayNames}

\* Occurrences of a (day, time, teacher) among the sessions beyond the first.
DuplicateTeacherOccurrences(tt) ==
  Cardinality(SessionPositions(tt))
    - Cardinality({<<p[1], tt[p[1]][p[2]].time, tt[p[1]][p[2]].teacher>> :
                     p \in SessionPositions(tt)})

\* Occurrences of a (day, time, room) among the sessions beyond the first.
DuplicateRoomOccurrences(tt) ==
  Cardinality(SessionPositions(tt))
    - Cardinality({<<p[1], tt[p[1]][p[2]].time, tt[p[1]][p[2]].room>> :
                     p \in SessionPositions(tt)})

SessionsOn(tt, d) == Cardinality({p \in SessionPositions(tt) : p[1] = d})

\* 100 - 10*c - 5*(maxDay - minDay) of a grid.
UnclampedScore(tt) ==
  LET maxDay == CHOOSE m \in {SessionsOn(tt, d) : d \in DayNames} :
                  \A d \in DayNames : m >= SessionsOn(tt, d)
      minDay == CHOOSE m \in {SessionsOn(tt, d) : d \in DayNames} :
                  \A d \in DayNames : m <= SessionsOn(tt, d)
  IN 100 - 10 * (DuplicateTeacherOccurrences(tt) + DuplicateRoomOccurrences(tt))
         - 5 * (maxDay - minDay)

\* C12: the score calculateTimetableScore returns for a grid is
\* max(0, 100 - 10*c - 5*(maxDay - minDay)), with c the duplicate (day, time,
\* teacher) plus the duplicate (day, time, room) occurrences among the
\* sessions and maxDay, minDay the extreme per-day session counts, and it is
\* an integer from 0 to 100.
C12_ScoreFormula ==
  pc = "scored" =>
    /\ returned[1] = (IF UnclampedScore(timetable) < 0 THEN 0
                      ELSE UnclampedScore(timetable))
    /\ returned[1] \in 0..100

\* A scored grid with both kinds of duplicate whose penalties exceed 100.
C12_Witness ==
  /\ pc = "scored"
  /\ DuplicateTeacherOccurrences(timetable) > 0
  /\ DuplicateRoomOccurrences(timetable) > 0
  /\ UnclampedScore(timetable) < 0

HasLunch(classes) == \E i \in 1..Len(classes) : classes[i].type = "lunch"

\* C13: on a catalogue with zero courses the returned grid has no session on
\* any day and a lunch marker on each day, no course is reported unplaced and
\* the score of the grid is 100.
C13_ZeroCourses ==
  (pc = "done" /\ Len(sectionData.courses) = 0) =>
    /\ \A d \in DayNames : ClassCount(Returned.grid[d]) = 0
    /\ \A d \in DayNames : HasLunch(Returned.grid[d])
    /\ ReportedUnplaced(Returned) = {}
    /\ calculateTimetableScore(Returned.grid) = 100

CatalogueRoomNames(type) ==
  {r.name : r \in {x \in Range(sectionData.rooms) : x.type = type}}

\* C14: room selection does not raise, and every session placed by the
\* construction has a room: a lab session a lab-type room of the catalogue,
\* or 'Lab 101' when the catalogue has no lab-type room; a theory session a
\* classroom-type room of the catalogue, or 'Room 201' when it has none.
C14_RoomSelection ==
  /\ pc = "raised" => (Len(theorySlots) = 0 \/ Len(labSlots) = 0)
  /\ \A s \in SessionsOf(timetable) :
       LET names == CatalogueRoomNames(IF s.cls.type = "lab" THEN "lab"
                                       ELSE "classroom")
           default == IF s.cls.type = "lab" THEN "Lab 101" ELSE "Room 201"
       IN /\ Truthy(s.cls.room)
          /\ IF names = {} THEN s.cls.room = default
             ELSE s.cls.room \in names /\ s.cls.room # default

\* A construction on a catalogue with a classroom and no lab room that gave a
\* lab session the default lab room and a theory session the classroom.
C14_Witness ==
  /\ pc = "breaks"
  /\ CatalogueRoomNames("lab") = {}
  /\ CatalogueRoomNames("classroom") # {}
  /\ \E s \in SessionsOf(timetable) : s.cls.type = "lab" /\ s.cls.room = "Lab 101"
  /\ \E s \in SessionsOf(timetable) : s.cls.type = "theory" /\ s.cls.room = "R1"

(***************************************************************************)
(* Termination of a call.                                                  *)
(***************************************************************************)
SessionsOfCourse(tt, course) == {s \in SessionsOf(tt) : s.cls.id = course.id}

\* The sampling budget is respected, a course has no session while it is
\* sampled and one at most afterwards, and at the end of construction every
\* course has a session or has been warned about.
BoundedSampling ==
  /\ pc = "theory" => attempts <= TheoryMaxAttempts
  /\ pc = "lab" => attempts <= LabMaxAttempts
  /\ \A k \in 1..Len(sectionData.courses) :
       Cardinality(SessionsOfCourse(timetable, sectionData.courses[k])) <= 1
  /\ pc = "theory" =>
       \A k \in ci..Len(theoryCourses) :
         SessionsOfCourse(timetable, theoryCourses[k]) = {}
  /\ pc = "lab" =>
       \A k \in ci..Len(labCourses) :
         SessionsOfCourse(timetable, labCourses[k]) = {}
  /\ pc = "breaks" =>
       \A k \in 1..Len(sectionData.courses) :
         \/ SessionsOfCourse(timetable, sectionData.courses[k]) # {}
         \/ sectionData.courses[k].id \in warned

\* C15: on a catalogue with a theory-kind and a lab-kind timeslot the call
\* returns; a theory course takes at most 100 and a lab course at most 50
\* sampling attempts, sampling of a course ends with its first accepted
\* placement, and the courses after an unplaced course are still sampled.
C15_Terminates ==
  /\ []((Len(theorySlots) >= 1 /\ Len(labSlots) >= 1) => BoundedSampling)
  /\ (Len(theorySlots) >= 1 /\ Len(labSlots) >= 1) ~> (pc = "done")

\* A returned call that gave up on a course and placed a course after it.
C15_Witness ==
  /\ pc = "done"
  /\ Len(theorySlots) >= 1 /\ Len(labSlots) >= 1
  /\ \E k \in 1..Len(sectionData.courses) :
       /\ sectionData.courses[k].id \in warned
       /\ \E j \in (k + 1)..Len(sectionData.courses) :
            SessionsOfCourse(timetable, sectionData.courses[j]) # {}

(***************************************************************************)
(* Two interleaved calls.                                                  *)
(***************************************************************************)
\* The frames of the calls in flight.
Calls == {Frame} \cup Range(suspended)

\* The sessions a frame holds, in its grid under construction and in the
\* grid it returned.
FrameSessions(f) ==
  SessionsOf(f.timetable)
    \cup (IF f.pc = "done" THEN SessionsOf(f.returned[1].grid) ELSE {})

\* C16: with two calls interleaved at their awaits the default constraints
\* of the instance keep their value, a call's grid (under construction or
\* returned) holds only sessions of the call's own courses, and a call is
\* entered with six empty days.
C16_CallsIsolated ==
  /\ instanceConstraints = DefaultConstraints
  /\ \A f \in Calls :
       /\ \A s \in FrameSessions(f) :
            \E k \in 1..Len(f.sectionData.courses) :
              /\ s.cls.id = f.sectionData.courses[k].id
              /\ s.cls.teacher = f.sectionData.courses[k].teacherId
              /\ \/ s.cls.code = f.sectionData.courses[k].code
                 \/ s.cls.code = f.sectionData.courses[k].code \o "L"
       /\ (f.pc = "theory" /\ f.ci = 1 /\ f.attempts = 0) =>
            /\ DOMAIN f.timetable = DayNames
            /\ Cardinality(DayNames) = 6
            /\ \A d \in DayNames : f.timetable[d] = << >>

\* The first call samples its lab course while the second call, entered
\* after the first call's theory courses and holding a session of its own,
\* waits at its first await.
C16_Witness ==
  /\ Len(suspended) = 1
  /\ sectionData = FirstCallCatalogue
  /\ pc = "lab" /\ attempts > 0
  /\ Cardinality(SessionsOf(timetable)) = 2
  /\ suspended[1].pc = "lab"
  /\ SessionsOf(suspended[1].timetable) # {}

(***************************************************************************)
(* The placement checks as functions of their arguments.                   *)
(***************************************************************************)
\* The results canScheduleCourse can return for the course being sampled on
\* a day and slot, one for each room its findSuitableRoom call can draw.
CourseCheckResults(day, si) ==
  {canScheduleCourse(timetable, day, theorySlots, si, theoryCourses[ci], room,
                     finalConstraints) :
     room \in findSuitableRoom(sectionData.rooms, theoryCourses[ci])}

\* Likewise for canScheduleLab and its findLabRoom call.
LabCheckResults(day) ==
  {canScheduleLab(timetable, day, labCourses[ci], room) :
     room \in findLabRoom(sectionData.rooms, labCourses[ci])}

\* C17: a placement check has one result for given arguments (grid, day,
\* slot, course, room list, constraints), whichever rooms qualify.
C17_ChecksDeterministic ==
  /\ (pc = "theory" /\ ci <= Len(theoryCourses)) =>
       \A day \in Range(RandomDays) : \A si \in SlotDraws(theorySlots) :
         Cardinality(CourseCheckResults(day, si)) = 1
  /\ (pc = "lab" /\ ci <= Len(labCourses)) =>
       \A day \in Range(LabDays) : Cardinality(LabCheckResults(day)) = 1

\* C18: while the labs are placed and at the end of construction, the
\* teacher of a lab session has no other session on the day of the lab.
C18_LabTeacherDayFree ==
  pc \in {"lab", "breaks"} =>
    \A s \in SessionsOf(timetable) : \A t \in SessionsOf(timetable) :
      (s.cls.type = "lab" /\ t.day = s.day /\ t.cls.id # s.cls.id)
        => t.cls.teacher # s.cls.teacher

\* The end of a construction that placed a lab and a theory session of the
\* lab's teacher.
C18_Witness ==
  /\ pc = "breaks"
  /\ \E s \in SessionsOf(timetable) : \E t \in SessionsOf(timetable) :
       /\ s.cls.type = "lab" /\ t.cls.type = "theory"
       /\ t.cls.teacher = s.cls.teacher

\* The pairs <<i, j>> of positions of a day's array that hold two sessions
\* with no session between them.
AdjacentSessions(daySchedule) ==
  {p \in (1..Len(daySchedule)) \X (1..Len(daySchedule)) :
     /\ p[1] < p[2]
     /\ IsSession(daySchedule[p[1]]) /\ IsSession(daySchedule[p[2]])
     /\ \A k \in (p[1] + 1)..(p[2] - 1) : ~IsSession(daySchedule[k])}

BreakBetween(daySchedule, i, j) ==
  \E k \in (i + 1)..(j - 1) : daySchedule[k].type = "break"

\* C19: in a call with an override of the minimum gap, after addBreaksAndLunch
\* a break marker lies between two adjacent sessions of a day exactly when the
\* gap from the first's end to the second's start exceeds the merged value.
C19_BreaksFollowOverride ==
  (pc = "optimize" /\ "MIN_BREAK_BETWEEN_CLASSES" \in DOMAIN constraints) =>
    \A d \in DayNames : \A p \in AdjacentSessions(timetable[d]) :
      BreakBetween(timetable[d], p[1], p[2])
        <=> getTimeDifference(EndOf(timetable[d][p[1]].time),
                              StartOf(timetable[d][p[2]].time))
              > finalConstraints.MIN_BREAK_BETWEEN_CLASSES

\* The place of a start time in the day: the position of its timeslot in
\* the catalogue, whose timeslots are listed in the order of the day.
ChronologicalRank(start) ==
  FirstOf({k \in 1..Len(sectionData.timeslots) :
             sectionData.timeslots[k].start = start})

\* C20: after addBreaksAndLunch, the sessions of every day appear in
\* chronological order of their start time.
C20_SessionsChronological ==
  pc = "optimize" =>
    \A d \in DayNames : \A p \in AdjacentSessions(timetable[d]) :
      ChronologicalRank(StartOf(timetable[d][p[1]].time))
        <= ChronologicalRank(StartOf(timetable[d][p[2]].time))

\* Minutes after midnight of a time of the grid's twelve-hour clock: the
\* hours before 8 are those of the afternoon.
MinuteOfDay(t) ==
  IF ToNumber(Split(t, Colon)[1]) < 8 THEN ClockMinutes(t) + 720 ELSE ClockMinutes(t)

\* The time span of an entry overlaps the lunch window 12:00-1:00.
OverlapsLunch(e) ==
  /\ MinuteOfDay(StartOf(e.time)) < MinuteOfDay(Clock(1, 0))
  /\ MinuteOfDay(EndOf(e.time)) > MinuteOfDay(Clock(12, 0))

LunchMarkers(classes) == Len(SelectSeq(classes, LAMBDA e : e.type = "lunch"))

\* C21: addBreaksAndLunch adds at most one lunch marker to a day, and none to
\* a day with a session whose time span overlaps the lunch window.
C21_NoLunchOverSession ==
  (pc = "called" /\ Returned.call = "addBreaksAndLunch") =>
    \A d \in DayNames :
      /\ LunchMarkers(Returned.grid[d]) <= LunchMarkers(timetable[d]) + 1
      /\ (\E i \in 1..Len(timetable[d]) :
            IsSession(timetable[d][i]) /\ OverlapsLunch(timetable[d][i]))
           => LunchMarkers(Returned.grid[d]) = LunchMarkers(timetable[d])

SessionSeq(classes) == SelectSeq(classes, IsSession)

\* C22: addBreaksAndLunch keeps, on every day, the sessions of that day as
\* they are (time, teacher, room, code, type), each once; what it adds are
\* break and lunch markers, and it removes no entry.
C22_SessionsKept ==
  (pc = "called" /\ Returned.call = "addBreaksAndLunch") =>
    \A d \in DayNames :
      LET before == timetable[d]
          after == Returned.grid[d]
      IN /\ Range(SessionSeq(after)) = Range(SessionSeq(before))
         /\ Len(SessionSeq(after)) = Len(SessionSeq(before))
         /\ \A i \in 1..Len(after) :
              ~IsSession(after[i]) => after[i].type \in {"break", "lunch"}
         /\ Len(after) >= Len(before)

\* A call that reordered the sessions of a day and put a break marker
\* between them.
C22_Witness ==
  /\ pc = "called"
  /\ Returned.call = "addBreaksAndLunch"
  /\ \E d \in DayNames :
       /\ SessionSeq(Returned.grid[d]) # SessionSeq(timetable[d])
       /\ \E i \in 1..Len(Returned.grid[d]) : Returned.grid[d][i].type = "break"

HoldsTeacherAt(classes, cls) ==
  \E i \in 1..Len(classes) :
    classes[i].time = cls.time /\ classes[i].teacher = cls.teacher

WithoutPosition(classes, i) ==
  SubSeq(classes, 1, i - 1) \o SubSeq(classes, i + 1, Len(classes))

\* moveClassToResolveConflict called for the session at position i of day d:
\* the session goes, as it is, to the end of another day that held no entry
\* of its teacher at its time, and stays only when every other day holds one.
RelocationIsFree(tt, d, i, after) ==
  LET cls == tt[d][i]
      free == {o \in DayNames \ {d} : ~HoldsTeacherAt(tt[o], cls)}
  IN IF free = {} THEN after = tt
     ELSE \E o \in free :
            after = [tt EXCEPT ![o] = Append(@, cls),
                               ![d] = WithoutPosition(@, i)]

SameTeacherAndTime(tt, s) ==
  {t \in SessionsOf(tt) : t.cls.time = s.cls.time /\ t.cls.teacher = s.cls.teacher}

\* C24: a relocation by moveClassToResolveConflict goes to a different day
\* free of the session's teacher at its time and keeps the session's time;
\* after resolveTeacherConflicts two sessions share day, time and teacher
\* only where every other day holds that teacher at that time, and never
\* when no teacher has more sessions at one time than there are days.
C24_RelocationResolves ==
  /\ (pc = "called" /\ Returned.call = "moveClassToResolveConflict") =>
       RelocationIsFree(timetable, Returned.day, Returned.arg, Returned.grid)
  /\ (pc = "called" /\ Returned.call = "resolveTeacherConflicts") =>
       /\ {s.cls : s \in SessionsOf(Returned.grid)} = {s.cls : s \in SessionsOf(timetable)}
       /\ \A a \in SessionsOf(Returned.grid) : \A b \in SessionsOf(Returned.grid) :
            (SameSlot(a, b) /\ a.cls.teacher = b.cls.teacher) =>
              \A o \in DayNames : HoldsTeacherAt(Returned.grid[o], a.cls)
       /\ (\A s \in SessionsOf(timetable) :
             Cardinality(SameTeacherAndTime(timetable, s)) <= Len(Days))
            => ~TeacherClash(Returned.grid)

\* resolveTeacherConflicts on a grid with more sessions of one teacher at one
\* time than days: it relocated sessions, and one duplicate stayed.
C24_Witness ==
  /\ pc = "called"
  /\ Returned.call = "resolveTeacherConflicts"
  /\ TeacherClash(timetable)
  /\ TeacherClash(Returned.grid)
  /\ Returned.grid # timetable

TheorySeq(classes) == SelectSeq(classes, LAMBDA c : c.type = "theory")

\* The theory sessions of day d before a call that are on another day after it.
MovedOff(before, after, d) ==
  {c \in Range(TheorySeq(before[d])) :
     \E o \in DayNames \ {d} : \E i \in 1..Len(after[o]) : after[o][i] = c}

\* balanceDailyWorkload moved, from every day whose count exceeds the mean
\* plus 1, floor(count - mean) theory sessions, the earliest ones.
BalanceMovesEarliest(before, after) ==
  LET n == Len(Days)
      total == SumSeq([di \in 1..n |-> ClassCount(before[Days[di]])])
  IN \A d \in DayNames :
       LET count == ClassCount(before[d])
           k == (n * count - total) \div n
       IN n * count > total + n =>
            /\ Cardinality(MovedOff(before, after, d)) = k
            /\ k <= Len(TheorySeq(before[d]))
            /\ MovedOff(before, after, d) = Range(SubSeq(TheorySeq(before[d]), 1, k))

\* One move of redistributeClasses from day d: the first theory session of d
\* is, after it, on another day that held the fewest sessions of the other
\* days before it.
MoveGoesToFewest(before, after, d) ==
  Len(TheorySeq(before[d])) > 0 =>
    \E o \in DayNames \ {d} :
      /\ \E i \in 1..Len(after[o]) : after[o][i] = TheorySeq(before[d])[1]
      /\ \A o2 \in DayNames \ {d} :
           ClassCount(before[o]) <= ClassCount(before[o2])

\* C25: balancing moves exactly floor(count - mean) theory sessions, the
\* earliest first, off every day whose count of sessions exceeds the mean
\* plus 1, and a moved session goes to the other day with the fewest sessions
\* at the moment of the move.
C25_BalancingMoves ==
  /\ (pc = "called" /\ Returned.call = "balanceDailyWorkload") =>
       BalanceMovesEarliest(timetable, Returned.grid)
  /\ (pc = "called" /\ Returned.call = "redistributeClasses" /\ Returned.arg = 1) =>
       MoveGoesToFewest(timetable, Returned.grid, Returned.day)

\* C26: at the end of construction no two sessions of the same day and time
\* have the same room, the room recorded on a session being the one whose
\* availability its placement check verified.
C26_RecordedRoomWasChecked == pc = "breaks" => ~RoomClash(timetable)

\* The places <<day, position>> of a grid that hold the session object id.
PlacesOf(tt, id) ==
  {p \in DayNames \X (1..GridSize(tt)) :
     /\ p[2] <= Len(tt[p[1]])
     /\ IsSession(tt[p[1]][p[2]])
     /\ tt[p[1]][p[2]].id = id}

SessionIds(tt) == {s.cls.id : s \in SessionsOf(tt)}

\* C27: every session of the grid handed to optimizeTimetable is in the grid
\* it returns exactly once, with its code, time, teacher and type, and the
\* returned grid holds no other session.
C27_SessionsConserved ==
  (pc = "called" /\ Returned.call = "optimizeTimetable") =>
    /\ SessionIds(Returned.grid) = SessionIds(timetable)
    /\ \A s \in SessionsOf(timetable) :
         /\ Cardinality(PlacesOf(Returned.grid, s.cls.id)) = 1
         /\ \A p \in PlacesOf(Returned.grid, s.cls.id) :
              LET c == Returned.grid[p[1]][p[2]]
              IN /\ c.code = s.cls.code
                 /\ c.time = s.cls.time
                 /\ c.teacher = s.cls.teacher
                 /\ c.type = s.cls.type

\* An optimizeTimetable call that moved a session to another day and gave
\* a session another room.
C27_Witness ==
  /\ pc = "called"
  /\ Returned.call = "optimizeTimetable"
  /\ \E s \in SessionsOf(timetable) : \E t \in SessionsOf(Returned.grid) :
       s.cls.id = t.cls.id /\ s.day # t.day
  /\ \E s \in SessionsOf(timetable) : \E t \in SessionsOf(Returned.grid) :
       s.cls.id = t.cls.id /\ s.cls.room # t.cls.room

\* The difference between the largest and the smallest count of sessions of
\* a day, as calculateBalanceScore takes it.
WorkloadSpread(tt) == (0 - calculateBalanceScore(tt)) \div 5

\* The grid balanceDailyWorkload is handed by optimizeTimetable.
GridToBalance == resolveRoomConflicts(resolveTeacherConflicts(timetable))

\* C28: on the grid of a call after construction and break/lunch injection,
\* the difference between the largest and the smallest per-day count of
\* sessions is after balanceDailyWorkload at most what it was before.
C28_BalancingNeverWorsens ==
  pc = "optimize" =>
    WorkloadSpread(balanceDailyWorkload(GridToBalance)) <= WorkloadSpread(GridToBalance)

\* A break marker at position i of a day's array sits directly between two
\* sessions: start at the end of the one before, end at the start of the one
\* after.
BreakFitsNeighbours(daySchedule, i) ==
  /\ 1 < i /\ i < Len(daySchedule)
  /\ IsSession(daySchedule[i - 1]) /\ IsSession(daySchedule[i + 1])
  /\ StartOf(daySchedule[i].time) = EndOf(daySchedule[i - 1].time)
  /\ EndOf(daySchedule[i].time) = StartOf(daySchedule[i + 1].time)

\* C30: in the returned grid every break marker of a day sits directly between
\* two sessions of that day, from the end of the session before it to the
\* start of the session after it.
C30_BreaksBetweenSessions ==
  pc = "done" =>
    \A di \in 1..Len(Days) :
      \A i \in 1..Len(Returned.grid[Days[di]]) :
        Returned.grid[Days[di]][i].type = "break" =>
          BreakFitsNeighbours(Returned.grid[Days[di]], i)

\* C29: in the grid a call returns, the Saturday entry holds no theory or lab
\* session.
C29_SaturdayHasNoSession ==
  pc = "done" => ClassCount(Returned.grid["Saturday"]) = 0

\* C31: once a logout has returned and no login has been started since,
\* isAuthenticated() is false and the keys userData, userRole and userEmail
\* are absent from localStorage.
C31_LoggedOutStaysOut ==
  authCalls.sinceLogout = "quiet" =>
    /\ ~isAuthenticated
    /\ getItem("userData") = Null
    /\ getItem("userRole") = Null
    /\ getItem("userEmail") = Null

\* The accounts whose user document has isActive false.
DeactivatedAccounts == {e \in DOMAIN userDocuments : ~userDocuments[e].isActive}

\* The session the page holds is that of the account email: it is the
\* current user, or the stored session carries its email.
SessionOfAccount(email) ==
  \/ currentUser # NoUser /\ currentUser[1].email = email
  \/ getItem("userEmail") = email

\* C32: a deactivated account never becomes an authenticated session: the
\* page never holds its session with isAuthenticated() true, a role that
\* hasRole accepts, or userData/userRole in localStorage.
C32_DeactivatedNeverAuthenticated ==
  \A email \in DeactivatedAccounts :
    SessionOfAccount(email) =>
      /\ ~isAuthenticated
      /\ \A r \in {"student", "faculty", "admin"} : ~hasRole(r)
      /\ getItem("userData") = Null
      /\ getItem("userRole") = Null

\* The step is the start of a logout call.
LogoutIsCalled == authCalls'.logouts = authCalls.logouts + 1

\* C33: a logout of a demo session (isDemoUser is set, as handleDemoLogin
\* leaves it) does not call the Firebase signOut.
C33_DemoLogoutSkipsSignOut ==
  [][(getItem("isDemoUser") = "true" /\ LogoutIsCalled) =>
       firebaseAuth'.signOutCalls = firebaseAuth.signOutCalls]_vars

=============================================================================
